---- MODULE Spec2Model ----
(***************************************************************************)
(* Model of the content scripts of sdsa.team:                              *)
(*   scripts/validate.js            the YAML content validator             *)
(*   scripts/generate-checksums.js  the checksum / manifest generator      *)
(*                                                                         *)
(* JavaScript strings are modelled as sequences of one-character strings,  *)
(* so that includes / startsWith / indexOf / split / trim are computed on  *)
(* characters as the scripts compute them.                                 *)
(***************************************************************************)
EXTENDS Integers, Sequences, FiniteSets, TLC

(***************************************************************************)
(* JavaScript string primitives                                            *)
(***************************************************************************)

\* the 1-based positions of a character in a string
Positions(s, ch) == {i \in 1..Len(s) : s[i] = ch}

\* the least member of a non-empty set of numbers
Least(S) == CHOOSE i \in S : \A j \in S : i <= j

\* whether sub occurs in s at 0-based offset i
MatchesAt(s, sub, i) ==
    i >= 0 /\ i + Len(sub) <= Len(s) /\ \A j \in 1..Len(sub) : s[i + j] = sub[j]

\* String.prototype.includes
Includes(s, sub) ==
    Len(sub) = 0 \/ \E i \in Positions(s, sub[1]) : MatchesAt(s, sub, i - 1)

\* String.prototype.startsWith
StartsWith(s, pre) == MatchesAt(s, pre, 0)

\* String.prototype.endsWith
EndsWith(s, suf) == MatchesAt(s, suf, Len(s) - Len(suf))

\* String.prototype.indexOf for a one-character needle: 0-based, -1 if absent
IndexOf(s, ch) ==
    IF Positions(s, ch) = {} THEN -1 ELSE Least(Positions(s, ch)) - 1

\* the characters the regular expression class \s and trim() treat as blank
WhiteSpace == {" ", "\t", "\r", "\n"}

\* the 1-based positions of the characters of s that are not blank
NonBlank(s) == {i \in 1..Len(s) : s[i] \notin WhiteSpace}

\* the greatest member of a non-empty set of numbers
Greatest(S) == CHOOSE i \in S : \A j \in S : i >= j

\* line.match(/^(\s*)/)[1].length : the number of leading blank characters
LeadingBlanks(s) == IF NonBlank(s) = {} THEN Len(s) ELSE Least(NonBlank(s)) - 1

\* String.prototype.trim
Trim(s) ==
    LET at == NonBlank(s)
    IN  IF at = {} THEN <<>> ELSE SubSeq(s, Least(at), Greatest(at))

\* (s.match(/c/g) || []).length : the number of occurrences of a character
CountChar(s, ch) == Cardinality({i \in 1..Len(s) : s[i] = ch})

\* String.prototype.split for a one-character separator
RECURSIVE Split(_, _)
Split(s, sep) ==
    LET at == IndexOf(s, sep)
    IN  IF at = -1 THEN <<s>>
        ELSE <<SubSeq(s, 1, at)>> \o Split(SubSeq(s, at + 2, Len(s)), sep)

\* Array.prototype.join for a one-character separator
RECURSIVE JoinWith(_, _)
JoinWith(parts, sep) ==
    IF Len(parts) = 0 THEN <<>>
    ELSE IF Len(parts) = 1 THEN parts[1]
    ELSE parts[1] \o <<sep>> \o JoinWith(Tail(parts), sep)

(***************************************************************************)
(* scripts/validate.js : validateYAML                                      *)
(***************************************************************************)

\* the violations of one line, in the order the loop body pushes them
LineErrors(line, lineNum) ==
    LET trimmedLine == Trim(line)
        indent == LeadingBlanks(line)
        colonIndex == IndexOf(line, ":")
        singleQuotes == CountChar(line, "'")
        doubleQuotes == CountChar(line, "\"")
        quoted == \/ StartsWith(trimmedLine, <<"'">>) \/ EndsWith(trimmedLine, <<"'">>)
                  \/ StartsWith(trimmedLine, <<"\"">>) \/ EndsWith(trimmedLine, <<"\"">>)
    IN  IF trimmedLine = <<>> \/ StartsWith(trimmedLine, <<"#">>) THEN <<>>
        ELSE
          (IF Includes(line, <<"\t">>)
             THEN <<[kind |-> "tab", line |-> lineNum]>> ELSE <<>>)
          \o
          (IF indent % 2 # 0
             THEN <<[kind |-> "indent", line |-> lineNum]>> ELSE <<>>)
          \o
          (IF /\ Includes(line, <<":">>) /\ ~Includes(line, <<":", " ">>)
              /\ colonIndex < Len(line) - 1
              /\ line[colonIndex + 2] # " " /\ line[colonIndex + 2] # "\n"
             THEN <<[kind |-> "colon", line |-> lineNum]>> ELSE <<>>)
          \o
          (IF quoted /\ StartsWith(trimmedLine, <<"'">>) /\ singleQuotes % 2 # 0
             THEN <<[kind |-> "squote", line |-> lineNum]>> ELSE <<>>)
          \o
          (IF quoted /\ StartsWith(trimmedLine, <<"\"">>) /\ doubleQuotes % 2 # 0
             THEN <<[kind |-> "dquote", line |-> lineNum]>> ELSE <<>>)

\* the for loop over content.split('\n')
RECURSIVE LinesErrors(_, _)
LinesErrors(lines, i) ==
    IF i > Len(lines) THEN <<>>
    ELSE LineErrors(lines[i], i) \o LinesErrors(lines, i + 1)

\* the required top-level fields of a knowledge block, in the order checked
sId == <<"i", "d">>
sTitle == <<"t", "i", "t", "l", "e">>
sInitialQuestion ==
    <<"i", "n", "i", "t", "i", "a", "l", "_", "q", "u", "e", "s", "t", "i", "o", "n">>
sPaths == <<"p", "a", "t", "h", "s">>
sMetadata == <<"m", "e", "t", "a", "d", "a", "t", "a">>
RequiredFields == <<sId, sTitle, sInitialQuestion, sPaths, sMetadata>>

sBlocksSlash == <<"b", "l", "o", "c", "k", "s", "/">>

\* the five `if (!content.includes('<field>:'))` tests
RECURSIVE MissingFieldErrors(_, _)
MissingFieldErrors(content, k) ==
    IF k > Len(RequiredFields) THEN <<>>
    ELSE (IF ~Includes(content, RequiredFields[k] \o <<":">>)
            THEN <<[kind |-> "missing", field |-> RequiredFields[k]]>> ELSE <<>>)
         \o MissingFieldErrors(content, k + 1)

\* validateYAML as it would be if the field checks were skipped once a line check failed
validateYAML_StopAtSyntaxError(content, filename) ==
    LET lineErrors == LinesErrors(Split(content, "\n"), 1)
    IN  IF Len(lineErrors) > 0 THEN lineErrors
        ELSE IF Includes(filename, sBlocksSlash) THEN MissingFieldErrors(content, 1)
        ELSE <<>>

validateYAML(content, filename) ==
    LinesErrors(Split(content, "\n"), 1)
    \o (IF Includes(filename, sBlocksSlash) THEN MissingFieldErrors(content, 1) ELSE <<>>)

(***************************************************************************)
(* The file system the validator runs on                                   *)
(***************************************************************************)

\* path.join('knowledge', 'blocks', file) (POSIX separators)
sKnowledgeBlocks == <<"k", "n", "o", "w", "l", "e", "d", "g", "e", "/", "b", "l", "o", "c", "k", "s">>
BlocksPath(file) == sKnowledgeBlocks \o <<"/">> \o file

\* names a blocks directory may hold
fAYaml == <<"a", ".", "y", "a", "m", "l">>
fBYml == <<"b", ".", "y", "m", "l">>
fNotesMd == <<"n", ".", "m", "d">>
BlockDirNames == {fAYaml, fBYml, fNotesMd}

\* a questionnaire of the JSON variant of the repository (README, Questionnaire Format)
pTopicJson == <<"c", "o", "n", "t", "e", "x", "t", "s", "/", "t", "o", "p", "i", "c", "s", "/", "q", ".", "j", "s", "o", "n">>

\* the working directories the script is started from: the repository root, or scripts/
cwdRoot == <<>>
cwdScripts == <<"s", "c", "r", "i", "p", "t", "s", "/">>

\* the lines of a knowledge block in the documented format (CLAUDE.md, Basic Structure),
\* grouped by the top-level field that owns them
GroupId == <<<<"i", "d", ":", " ", "a">>>>
GroupTitle == <<<<"t", "i", "t", "l", "e", ":", " ", "T">>>>
GroupInitialQuestion == <<<<"i", "n", "i", "t", "i", "a", "l", "_", "q", "u", "e", "s", "t", "i", "o", "n", ":", " ", "Q">>>>
GroupPaths == <<<<"p", "a", "t", "h", "s", ":">>,
                <<" ", " ", "y", "e", "s", ":">>,
                <<" ", " ", " ", " ", "s", "u", "m", "m", "a", "r", "y", ":", " ", "s">>>>
GroupMetadata == <<<<"m", "e", "t", "a", "d", "a", "t", "a", ":">>,
                   <<" ", " ", "a", "u", "t", "h", "o", "r", ":", " ", "x">>>>
FieldGroups == <<GroupId, GroupTitle, GroupInitialQuestion, GroupPaths, GroupMetadata>>

\* further lines a block file may hold after its fields
ExtraNone == <<>>
ExtraTab == <<<<"\t", "k", ":", " ", "v">>>>
ExtraOddIndent == <<<<"e", "x", "t", "r", "a", ":">>,
                    <<" ", " ", " ", "k", ":", " ", "v">>>>
ExtraUrlItem == <<<<"l", "i", "n", "k", "s", ":">>,
                  <<" ", " ", "-", " ", "h", "t", "t", "p", ":", "/", "/", "x">>>>
ExtraUnclosed == <<<<"'", "k", ":", " ", "v">>>>
ExtraSubtitle == <<<<"s", "u", "b", "t", "i", "t", "l", "e", ":", " ", "x">>>>
ExtraNestedId == <<<<"e", "x", "t", "r", "a", ":">>,
                   <<" ", " ", "i", "d", ":", " ", "n">>>>
Extras == {ExtraNone, ExtraTab, ExtraOddIndent, ExtraUrlItem, ExtraUnclosed, ExtraSubtitle,
           ExtraNestedId}

\* the most required fields a block file of the model lacks
MaxMissing == 1

RECURSIVE KeptGroups(_, _)
KeptGroups(removed, k) ==
    IF k > Len(FieldGroups) THEN <<>>
    ELSE (IF k \in removed THEN <<>> ELSE FieldGroups[k]) \o KeptGroups(removed, k + 1)

\* the text of a block file: its lines joined by newlines
BlockContent(removed, extra) == JoinWith(KeptGroups(removed, 1) \o extra, "\n")

YamlContents ==
    {BlockContent(removed, extra) :
        removed \in {r \in SUBSET (1..Len(FieldGroups)) : Cardinality(r) <= MaxMissing},
        extra \in Extras}

\* the lines of a questionnaire (README, Questionnaire Format); the last member is optional
JsonOpen == <<"{">>
JsonFields == <<<<" ", " ", "\"", "i", "d", "\"", ":", " ", "\"", "q", "\"", ",">>,
                <<" ", " ", "\"", "t", "i", "t", "l", "e", "\"", ":", " ", "\"", "T", "\"", ",">>,
                <<" ", " ", "\"", "q", "u", "e", "s", "t", "i", "o", "n", "s", "\"", ":", " ", "[", "]", ",">>,
                <<" ", " ", "\"", "l", "l", "m", "C", "o", "n", "f", "i", "g", "\"", ":", " ", "{", "}", ",">>>>
JsonLast == <<" ", " ", "\"", "d", "e", "s", "c", "r", "i", "p", "t", "i", "o", "n", "\"", ":", " ", "\"", "d", "\"">>
JsonClose == <<"}">>

RECURSIVE KeptJson(_, _)
KeptJson(removed, k) ==
    IF k > Len(JsonFields) THEN <<>>
    ELSE (IF k \in removed THEN <<>> ELSE <<JsonFields[k]>>) \o KeptJson(removed, k + 1)

JsonContent(removed) ==
    JoinWith(<<JsonOpen>> \o KeptJson(removed, 1) \o <<JsonLast, JsonClose>>, "\n")

JsonContents ==
    {JsonContent(removed) :
        removed \in {r \in SUBSET (1..Len(JsonFields)) : Cardinality(r) <= MaxMissing}}

sDotJson == <<".", "j", "s", "o", "n">>
sDotYaml == <<".", "y", "a", "m", "l">>
sDotYml == <<".", "y", "m", "l">>

\* what a file of the given name may contain
ContentsOf(filename) == IF EndsWith(filename, sDotJson) THEN JsonContents ELSE YamlContents

(***************************************************************************)
(* State                                                                   *)
(***************************************************************************)
VARIABLES
    cwd,              \* the directory the validator is started from (a path prefix)
    blocksDirExists,  \* whether knowledge/blocks exists
    blockEntries,     \* the names knowledge/blocks holds
    args,             \* process.argv.slice(2)
    pc,               \* where main is: "start", "loop", "exited"
    filesToValidate,  \* main's list of files
    results,          \* main's results array
    hasErrors,        \* main's flag
    output,           \* what console.log / console.error printed, in order
    reads,            \* the paths fs.readFileSync was called on, in order
    lastContent,      \* what the last fs.readFileSync returned
    exitCode          \* the argument of process.exit

vvars == <<cwd, blocksDirExists, blockEntries, args, pc, filesToValidate,
           results, hasErrors, output, reads, lastContent, exitCode>>

\* the state of scripts/generate-checksums.js
VARIABLES
    tree,    \* the regular files under KNOWLEDGE_DIR: relative path -> bytes
    scans    \* what the scans since the last change of the tree returned (the last two)

gvars == <<tree, scans>>

\* the state of a release: the runs of generate-checksums.js and bump-version.js on
\* knowledge/manifest.json (the file manifest.json of tree), the clock and the git tags
VARIABLES
    run,       \* what the last run of a script, or the last edit of a file, did
    clock,     \* the instant new Date() returns
    tags,      \* the tags of the git repository (what `git tag -l` lists)
    today,     \* the calendar day of the clock, as an index into Days
    releases   \* the versions released so far, in order

rvars == <<run, clock, tags, today, releases>>

\* no script has run, no release was made.  Of a run of generate-checksums.js, path is
\* the one file edited since the run before it, when that run wrote the manifest and
\* nothing else changed in between (<<>> otherwise)
\* Of a run of bump-version.js, version is the version it printed, day the day of its
\* clock, gitWorked whether `git tag -l` succeeded, seen the tags of the repository at
\* that time, and tagged whether the repository was tagged with the version since.
\* prior is the manifest the last run of generate-checksums.js wrote, while no file
\* was edited or removed since (<<>> otherwise)
NoRun ==
    [script |-> "none", args |-> <<>>, exitCode |-> 0, wrote |-> FALSE,
     hadManifest |-> FALSE, fault |-> "none", path |-> <<>>, clean |-> FALSE,
     version |-> <<>>, gitWorked |-> FALSE, seen |-> {}, day |-> 0, tagged |-> FALSE,
     prior |-> <<>>]
ReleaseIdle ==
    /\ run = NoRun /\ clock = 0 /\ tags = {} /\ today = 1 /\ releases = <<>>

\* no content read yet
NoContent == <<>>
\* process.exit not called yet
Running == -1

\* the regular files of the file system, as paths from the repository root
Files ==
    {BlocksPath(f) : f \in blockEntries} \cup {pTopicJson}

\* path.resolve(filename) for a relative filename: the working directory, then the name
Resolve(filename) == cwd \o filename

\* fs.existsSync
ExistsSync(filepath) == filepath \in Files

\* the orders fs.readdirSync may list a set of names in
Listings(names) ==
    {l \in [1..Cardinality(names) -> names] : \A i, j \in DOMAIN l : i # j => l[i] # l[j]}

(***************************************************************************)
(* scripts/validate.js : getAllYamlFiles, validateFile, main               *)
(***************************************************************************)

\* the forEach over fs.readdirSync(blocksDir)
RECURSIVE YamlFilesOf(_)
YamlFilesOf(listing) ==
    IF Len(listing) = 0 THEN <<>>
    ELSE (IF EndsWith(listing[1], sDotYaml) \/ EndsWith(listing[1], sDotYml)
            THEN <<BlocksPath(listing[1])>> ELSE <<>>)
         \o YamlFilesOf(Tail(listing))

\* knowledgeDir is resolved from __dirname, so the listing does not depend on cwd
getAllYamlFiles(listing) == IF blocksDirExists THEN YamlFilesOf(listing) ELSE <<>>

\* validateFile as it would be if a missing file were returned as valid
validateFile_NotFoundValid(filename, content) ==
    IF ~ExistsSync(Resolve(filename))
    THEN [filename |-> filename, valid |-> TRUE,
          errors |-> <<[kind |-> "notfound", file |-> filename]>>]
    ELSE LET errors == validateYAML(content, filename)
         IN  [filename |-> filename, valid |-> Len(errors) = 0, errors |-> errors]

\* validateFile as it would be without the fs.existsSync test
validateFile_NoExistenceCheck(filename, content) ==
    LET errors == validateYAML(content, filename)
    IN  [filename |-> filename, valid |-> Len(errors) = 0, errors |-> errors]

\* content is what fs.readFileSync returns when the file exists
validateFile(filename, content) ==
    IF ~ExistsSync(Resolve(filename))
    THEN [filename |-> filename, valid |-> FALSE,
          errors |-> <<[kind |-> "notfound", file |-> filename]>>]
    ELSE LET errors == validateYAML(content, filename)
         IN  [filename |-> filename, valid |-> Len(errors) = 0, errors |-> errors]

\* the lines console.error prints for the errors of a failed file
ErrorLines(filename, errors) ==
    [i \in 1..Len(errors) |-> [stream |-> "stderr", kind |-> "error",
                               file |-> filename, error |-> errors[i]]]

\* lines 123..137: the list of files to validate
MainStart ==
    /\ pc = "start"
    /\ \E listing \in Listings(blockEntries) :
         LET found == IF Len(args) = 0 THEN getAllYamlFiles(listing) ELSE <<args[1]>>
         IN  /\ filesToValidate' = found
             /\ IF Len(args) = 0 /\ Len(found) = 0
                THEN /\ output' = <<[stream |-> "stdout", kind |-> "nofiles"]>>
                     /\ exitCode' = 0
                     /\ pc' = "exited"
                ELSE /\ output' = IF Len(args) = 0
                                  THEN <<[stream |-> "stdout", kind |-> "validating",
                                          count |-> Len(found)]>>
                                  ELSE <<>>
                     /\ exitCode' = exitCode
                     /\ pc' = "loop"
    /\ UNCHANGED <<cwd, blocksDirExists, blockEntries, args, results,
                   hasErrors, reads, lastContent>>
    /\ UNCHANGED gvars
    /\ UNCHANGED rvars

\* lines 143..154: one iteration of filesToValidate.forEach
ValidateNext ==
    /\ pc = "loop"
    /\ Len(results) < Len(filesToValidate)
    /\ LET filename == filesToValidate[Len(results) + 1]
       IN  \E content \in (IF ExistsSync(Resolve(filename))
                           THEN ContentsOf(filename) ELSE {NoContent}) :
             LET result == validateFile(filename, content)
             IN  /\ results' = Append(results, result)
                 /\ reads' = IF ExistsSync(Resolve(filename))
                             THEN Append(reads, Resolve(filename)) ELSE reads
                 /\ lastContent' = content
                 /\ hasErrors' = (hasErrors \/ ~result.valid)
                 /\ output' = IF result.valid
                              THEN Append(output, [stream |-> "stdout", kind |-> "ok",
                                                   file |-> filename])
                              ELSE Append(output, [stream |-> "stderr", kind |-> "failed",
                                                   file |-> filename])
                                   \o ErrorLines(filename, result.errors)
    /\ UNCHANGED <<cwd, blocksDirExists, blockEntries, args, pc,
                   filesToValidate, exitCode>>
    /\ UNCHANGED gvars
    /\ UNCHANGED rvars

\* MainExit as it would be if the batch stopped at the first failed file
MainExit_OnFirstError ==
    /\ pc = "loop"
    /\ hasErrors \/ Len(results) = Len(filesToValidate)
    /\ output' = output
    /\ exitCode' = IF hasErrors THEN 1 ELSE 0
    /\ pc' = "exited"
    /\ UNCHANGED <<cwd, blocksDirExists, blockEntries, args, filesToValidate,
                   results, hasErrors, reads, lastContent>>
    /\ UNCHANGED gvars
    /\ UNCHANGED rvars

\* lines 156..163: the summary and process.exit
MainExit ==
    /\ pc = "loop"
    /\ Len(results) = Len(filesToValidate)
    /\ output' = IF Len(filesToValidate) > 1
                 THEN Append(output,
                        [stream |-> "stdout", kind |-> "summary",
                         validCount |-> Cardinality({i \in 1..Len(results) : results[i].valid}),
                         total |-> Len(results)])
                 ELSE output
    /\ exitCode' = IF hasErrors THEN 1 ELSE 0
    /\ pc' = "exited"
    /\ UNCHANGED <<cwd, blocksDirExists, blockEntries, args, filesToValidate,
                   results, hasErrors, reads, lastContent>>
    /\ UNCHANGED gvars
    /\ UNCHANGED rvars

\* the path arguments the validator is started with
ArgPaths == {BlocksPath(fAYaml), BlocksPath(fBYml), pTopicJson}

ValidatorInit ==
    /\ cwd \in {cwdRoot, cwdScripts}
    /\ blocksDirExists \in BOOLEAN
    /\ blockEntries \in (IF blocksDirExists THEN SUBSET BlockDirNames ELSE {{}})
    /\ args \in {<<>>} \cup {<<p>> : p \in ArgPaths}
    /\ pc = "start"
    /\ filesToValidate = <<>>
    /\ results = <<>>
    /\ hasErrors = FALSE
    /\ output = <<>>
    /\ reads = <<>>
    /\ lastContent = NoContent
    /\ exitCode = Running
    /\ tree = <<>>
    /\ scans = <<>>
    /\ ReleaseIdle


(***************************************************************************)
(* What a file declares, read independently of the validator               *)
(***************************************************************************)

\* the last result pushed, and whether it came from a file that was read
LastResult == results[Len(results)]
LastWasRead == Len(results) > 0 /\ lastContent # NoContent

\* the errors of a given kind in a list of errors
OfKind(errors, kind) == {i \in 1..Len(errors) : errors[i].kind = kind}
SyntaxKinds == {"tab", "indent", "colon", "squote", "dquote"}
SyntaxErrors(errors) == {i \in 1..Len(errors) : errors[i].kind \in SyntaxKinds}

\* the missing-field errors of a list that name a given field
MissingOf(errors, f) ==
    {i \in 1..Len(errors) : errors[i].kind = "missing" /\ errors[i].field = f}

\* the lines of a YAML text that are neither blank nor comments
ContentLines(content) ==
    SelectSeq(Split(content, "\n"),
              LAMBDA l : Trim(l) # <<>> /\ ~StartsWith(Trim(l), <<"#">>))

\* the key of a block-mapping entry `key:` or `key: value` starting at column from + 1
\* (<<>> when the text there is no such entry)
EntryKey(line, from) ==
    LET rest == SubSeq(line, from + 1, Len(line))
        at == IndexOf(rest, ":")
    IN  IF /\ at > 0
           /\ (at = Len(rest) - 1 \/ rest[at + 2] = " ")
           /\ \A i \in 1..at : rest[i] \notin {" ", "\t", "'", "\"", "-", "#", "[", "{"}
        THEN SubSeq(rest, 1, at) ELSE <<>>

\* the keys of the top-level mapping of a YAML text: the entries that start in column 0
TopLevelKeys(content) ==
    LET ls == ContentLines(content)
    IN  {EntryKey(ls[i], 0) : i \in {j \in 1..Len(ls) : LeadingBlanks(ls[j]) = 0}} \ {<<>>}

\* a scalar with its surrounding quotes removed
Unquote(v) ==
    IF Len(v) >= 2 /\ v[1] \in {"'", "\""} /\ v[Len(v)] = v[1]
    THEN SubSeq(v, 2, Len(v) - 1) ELSE v

\* the value of the top-level `id` entry of a YAML text (<<>> when there is none)
DeclaredId(content) ==
    LET ls == ContentLines(content)
        at == {i \in 1..Len(ls) : LeadingBlanks(ls[i]) = 0 /\ EntryKey(ls[i], 0) = sId}
    IN  IF at = {} THEN <<>>
        ELSE Unquote(Trim(SubSeq(ls[Least(at)], Len(sId) + 2, Len(ls[Least(at)]))))

\* path.basename(filename) with its extension stripped
BaseName(filename) ==
    LET slashes == Positions(filename, "/")
        name == IF slashes = {} THEN filename
                ELSE SubSeq(filename, Greatest(slashes) + 1, Len(filename))
        dots == Positions(name, ".")
    IN  IF dots = {} THEN name ELSE SubSeq(name, 1, Greatest(dots) - 1)

\* a plain (unquoted) one-line scalar: it starts with no indicator character and holds
\* neither `: ` nor ` #`, no tab or carriage return, and does not end in a colon
PlainScalar(v) ==
    /\ v # <<>>
    /\ v[1] \notin {"'", "\"", "[", "]", "{", "}", "-", "#", "&", "*", "!", "|", ">",
                    "%", "@", ",", "?", ":", " "}
    /\ v[Len(v)] \notin {":", " "}
    /\ ~Includes(v, <<":", " ">>) /\ ~Includes(v, <<" ", "#">>)
    /\ \A i \in 1..Len(v) : v[i] \notin {"\t", "\r"}

\* a quoted one-line scalar holding no further quote of its kind
QuotedScalar(v) ==
    /\ Len(v) >= 2 /\ v[1] \in {"'", "\""} /\ v[Len(v)] = v[1]
    /\ CountChar(v, v[1]) = 2
    /\ \A i \in 1..Len(v) : v[i] \notin {"\t", "\r"}

Scalar(v) == PlainScalar(v) \/ QuotedScalar(v)

\* the indentation of a line, when it is made of spaces only (-1 otherwise)
SpaceIndent(l) ==
    IF \A i \in 1..LeadingBlanks(l) : l[i] = " " THEN LeadingBlanks(l) ELSE -1

\* a block-sequence item `- scalar`
IsItem(l) ==
    LET body == SubSeq(l, LeadingBlanks(l) + 1, Len(l))
    IN  StartsWith(body, <<"-", " ">>) /\ Scalar(SubSeq(body, 3, Len(body)))

\* the text after `key:` of a mapping entry
EntryValue(l) ==
    SubSeq(l, LeadingBlanks(l) + Len(EntryKey(l, LeadingBlanks(l))) + 3, Len(l))

\* a mapping entry `key:` that opens a nested block
IsOpenEntry(l) == EntryKey(l, LeadingBlanks(l)) # <<>> /\ EntryValue(l) = <<>>

\* a mapping entry `key: scalar`
IsValueEntry(l) == EntryKey(l, LeadingBlanks(l)) # <<>> /\ Scalar(EntryValue(l))

\* the lines nest as block mappings and sequences: stack holds the open blocks
RECURSIVE Nests(_, _, _, _)
Nests(ls, i, stack, prevOpen) ==
    IF i > Len(ls) THEN TRUE
    ELSE LET l == ls[i]
             n == SpaceIndent(l)
             kind == IF IsItem(l) THEN "seq" ELSE "map"
         IN  /\ n >= 0
             /\ IsItem(l) \/ IsOpenEntry(l) \/ IsValueEntry(l)
             /\ IF stack = <<>>
                THEN n = 0 /\ kind = "map"
                     /\ Nests(ls, i + 1, <<[indent |-> n, kind |-> kind]>>, IsOpenEntry(l))
                ELSE IF n > stack[Len(stack)].indent
                THEN prevOpen
                     /\ Nests(ls, i + 1, Append(stack, [indent |-> n, kind |-> kind]),
                              IsOpenEntry(l))
                ELSE \E d \in 1..Len(stack) :
                        /\ stack[d].indent = n /\ stack[d].kind = kind
                        /\ Nests(ls, i + 1, SubSeq(stack, 1, d), IsOpenEntry(l))

\* a text of the block-style YAML subset: one document, a mapping of distinct top-level
\* keys whose values are scalars, nested mappings or sequences of scalars.  Every text
\* this accepts is well-formed YAML (it accepts only part of YAML).
WellFormedYaml(content) ==
    LET ls == ContentLines(content)
    IN  /\ Nests(ls, 1, <<>>, FALSE)
        /\ Cardinality({i \in 1..Len(ls) : LeadingBlanks(ls[i]) = 0})
             = Cardinality(TopLevelKeys(content))

\* the required top-level fields of a questionnaire (README, Questionnaire Format)
sQuestions == <<"q", "u", "e", "s", "t", "i", "o", "n", "s">>
sLlmConfig == <<"l", "l", "m", "C", "o", "n", "f", "i", "g">>
JsonRequired == {sId, sTitle, sQuestions, sLlmConfig}

\* the member lines `  "key": value` of a pretty-printed JSON object
JsonMemberLines(content) ==
    SelectSeq(Split(content, "\n"),
              LAMBDA l : LeadingBlanks(l) = 2 /\ Len(l) > 3 /\ l[3] = "\""
                         /\ Cardinality(Positions(l, "\"")) >= 2)

\* the key of a member line: the text between its first two quotes
JsonKey(l) ==
    LET q == Positions(l, "\"")
    IN  SubSeq(l, Least(q) + 1, Least(q \ {Least(q)}) - 1)

JsonTopLevelKeys(content) ==
    {JsonKey(JsonMemberLines(content)[i]) : i \in 1..Len(JsonMemberLines(content))}

\* the value of the `id` member: the text between the third and fourth quote of its line
JsonDeclaredId(content) ==
    LET ls == SelectSeq(JsonMemberLines(content),
                        LAMBDA l : JsonKey(l) = sId /\ Cardinality(Positions(l, "\"")) >= 4)
        q == Positions(ls[1], "\"")
        q3 == Least((q \ {Least(q)}) \ {Least(q \ {Least(q)})})
        q4 == Least({j \in q : j > q3})
    IN  IF Len(ls) = 0 THEN <<>> ELSE SubSeq(ls[1], q3 + 1, q4 - 1)

(***************************************************************************)
(* Claims about the validator                                              *)
(***************************************************************************)

\* C1: when the validator has exited, its exit code is 0 exactly if every validated
\* file produced no violation, it is 1 otherwise, and every violation of every failed
\* file has been printed.
C1_ExitCodeReflectsViolations ==
    pc = "exited" =>
      /\ exitCode \in {0, 1}
      /\ (exitCode = 0) <=> (\A i \in 1..Len(results) : Len(results[i].errors) = 0)
      /\ \A i \in 1..Len(results) : \A k \in 1..Len(results[i].errors) :
           \E o \in 1..Len(output) :
              /\ output[o].kind = "error"
              /\ output[o].file = results[i].filename
              /\ output[o].error = results[i].errors[k]

\* a batch of two files, the first clean and the second failing, has exited
C1_Witness ==
    /\ pc = "exited" /\ Len(results) = 2
    /\ results[1].errors = <<>> /\ results[2].errors # <<>>

\* C2: a validated knowledge-block file gets exactly one missing-field violation for
\* each required top-level field it lacks, and none for a field it has.
C2_OneViolationPerAbsentField ==
    (LastWasRead /\ Includes(LastResult.filename, sBlocksSlash)) =>
      \A k \in 1..Len(RequiredFields) :
         Cardinality(MissingOf(LastResult.errors, RequiredFields[k]))
           = IF RequiredFields[k] \in TopLevelKeys(lastContent) THEN 0 ELSE 1

\* C3: a validated file whose declared id differs from its base name gets exactly one
\* id-mismatch violation.
C3_IdMismatchReported ==
    (LastWasRead /\ DeclaredId(lastContent) # <<>>
       /\ DeclaredId(lastContent) # BaseName(LastResult.filename)) =>
      Cardinality(OfKind(LastResult.errors, "idmismatch")) = 1

C5_ValidBlockHasNoViolation ==
    (/\ LastWasRead /\ Includes(LastResult.filename, sBlocksSlash)
     /\ WellFormedYaml(lastContent)
     /\ \A k \in 1..Len(RequiredFields) : RequiredFields[k] \in TopLevelKeys(lastContent)
     /\ DeclaredId(lastContent) = BaseName(LastResult.filename)) =>
      LastResult.errors = <<>>

\* C6: the validator exits only after every file of the list has its own result, in
\* order, whatever the results of the files before it.
C6_EveryFileValidated ==
    /\ Len(results) <= Len(filesToValidate)
    /\ \A i \in 1..Len(results) : results[i].filename = filesToValidate[i]
    /\ pc = "exited" => Len(results) = Len(filesToValidate)

\* a batch whose first file failed went on to the second file and exited
C6_Witness ==
    /\ pc = "exited" /\ Len(filesToValidate) = 2
    /\ results[1].errors # <<>> /\ Len(results) = 2

\* C7: with a path argument that does not exist, nothing is read, and at exit the
\* missing file has been reported and the exit code is not 0.
C7_MissingArgumentIsFatal ==
    (Len(args) > 0 /\ ~ExistsSync(Resolve(args[1]))) =>
      /\ reads = <<>> /\ lastContent = NoContent
      /\ pc = "exited" =>
           /\ exitCode # 0
           /\ \E o \in 1..Len(output) :
                /\ output[o].kind = "error"
                /\ output[o].error = [kind |-> "notfound", file |-> args[1]]

\* the validator has exited on a path argument that does not exist
C7_Witness ==
    pc = "exited" /\ Len(args) > 0 /\ ~ExistsSync(Resolve(args[1]))

\* C8: a validated questionnaire (.json) gets a violation for each required top-level
\* field it lacks, and one for an id that differs from its base name.
C8_QuestionnaireChecked ==
    (LastWasRead /\ EndsWith(LastResult.filename, sDotJson)) =>
      /\ \A f \in JsonRequired \ JsonTopLevelKeys(lastContent) :
            MissingOf(LastResult.errors, f) # {}
      /\ JsonDeclaredId(lastContent) # BaseName(LastResult.filename) =>
            OfKind(LastResult.errors, "idmismatch") # {}

(***************************************************************************)
(* scripts/generate-checksums.js : the content tree and scanDirectory      *)
(***************************************************************************)
\* the paths a content tree of the model may hold, relative to KNOWLEDGE_DIR
sManifestJson == <<"m", "a", "n", "i", "f", "e", "s", "t", ".", "j", "s", "o", "n">>
pCatalog == <<"c", ".", "j", "s", "o", "n">>
pBlockA == <<"b", "l", "o", "c", "k", "s", "/", "a", ".", "y", "a", "m", "l">>
pBlockB == <<"b", "l", "o", "c", "k", "s", "/", "b", ".", "y", "m", "l">>
pBlockSubA == <<"b", "l", "o", "c", "k", "s", "/", "s", "/", "a", ".", "y", "a", "m", "l">>
pResource == <<"r", "e", "s", "o", "u", "r", "c", "e", "s", "/", "r", ".", "m", "d">>
TreePaths == {sManifestJson, pCatalog, pBlockA, pBlockB, pBlockSubA, pResource}

\* a file named manifest.json in a subdirectory, and the paths of the trees that are
\* scanned
pSubManifest == <<"b", "l", "o", "c", "k", "s", "/">> \o sManifestJson
ScanPaths == TreePaths \cup {pSubManifest}

\* the byte contents a file of the model may have
FileBytes == {<<0>>, <<1, 1>>}

\* the most files a content tree of the model holds
MaxFiles == 3

\* path.join of a directory and a name
PathJoin(dir, name) == dir \o <<"/">> \o name

\* the part of a path below a directory (<<>> is the root); <<>> when it is not below it
Under(p, dir) ==
    IF dir = <<>> THEN p
    ELSE IF StartsWith(p, dir \o <<"/">>) THEN SubSeq(p, Len(dir) + 2, Len(p))
    ELSE <<>>

\* the first component of a relative path
FirstName(p) == IF IndexOf(p, "/") = -1 THEN p ELSE SubSeq(p, 1, IndexOf(p, "/"))

\* the names fs.readdirSync(dir) returns, as a set
EntriesOf(dir) ==
    {FirstName(Under(p, dir)) : p \in {q \in DOMAIN tree : Under(q, dir) # <<>>}}

\* fs.statSync(fullPath).isDirectory()
IsDirectory(fullPath) == \E p \in DOMAIN tree : StartsWith(p, fullPath \o <<"/">>)

\* the directories of the tree, the root (<<>>) included
Directories ==
    {<<>>} \cup UNION {{SubSeq(p, 1, i - 1) : i \in Positions(p, "/")} : p \in DOMAIN tree}

\* the ways fs.readdirSync may order the entries of each directory of a set
RECURSIVE ReaddirOrders(_)
ReaddirOrders(dirs) ==
    IF dirs = {} THEN {<<>>}
    ELSE LET d == CHOOSE x \in dirs : TRUE
         IN  {rest @@ (d :> l) : rest \in ReaddirOrders(dirs \ {d}),
                                 l \in Listings(EntriesOf(d))}

\* getFileChecksum as it would be if the content were never fed to the hash
getFileChecksum_OfNothing(bytes) == [sha256hex |-> <<>>]

\* getFileChecksum: the SHA-256 digest of the bytes, as hex; the hash is taken to be
\* collision-free, so the digest stands for the bytes it was computed from
getFileChecksum(bytes) == [sha256hex |-> bytes]

\* getFileSize: stats.size
getFileSize_One(bytes) == 1
getFileSize(bytes) == Len(bytes)

\* obj[key] = value on a JavaScript object, kept as its entries in key order: a new
\* key goes last, an existing key keeps its place
ObjectSet(obj, key, value) ==
    IF \E i \in 1..Len(obj) : obj[i].key = key
    THEN [i \in 1..Len(obj) |->
            IF obj[i].key = key THEN [key |-> key, value |-> value] ELSE obj[i]]
    ELSE Append(obj, [key |-> key, value |-> value])

\* the results object scanDirectory starts from
EmptyResults == [checksums |-> <<>>, files |-> <<>>, totalSize |-> 0, fileCount |-> 0]

\* recordFile as it would be if checksums were keyed by the file name, not the path
recordFile_KeyedByName(res, file, relativePath, fullPath) ==
    LET checksum == getFileChecksum(tree[fullPath])
        size == getFileSize(tree[fullPath])
    IN  [checksums |-> ObjectSet(res.checksums, file, <<"sha256:", checksum>>),
         files |-> Append(res.files,
                          [path |-> relativePath, checksum |-> checksum, size |-> size]),
         totalSize |-> res.totalSize + size,
         fileCount |-> res.fileCount + 1]

\* lines 51..61: hash one file and record it
recordFile(res, file, relativePath, fullPath) ==
    LET checksum == getFileChecksum(tree[fullPath])
        size == getFileSize(tree[fullPath])
    IN  [checksums |-> ObjectSet(res.checksums, relativePath, <<"sha256:", checksum>>),
         files |-> Append(res.files,
                          [path |-> relativePath, checksum |-> checksum, size |-> size]),
         totalSize |-> res.totalSize + size,
         fileCount |-> res.fileCount + 1]

\* lines 40..64: walk, with the order readdirSync lists each directory in
RECURSIVE walk(_, _, _, _, _), walkEach(_, _, _, _, _, _)

\* walkEach as it would be without the excludeFiles test of line 50
walkEach_NoExclude(currentDir, prefix, excludeFiles, order, i, res) ==
    IF i > Len(order[currentDir]) THEN res
    ELSE LET file == order[currentDir][i]
             fullPath == IF currentDir = <<>> THEN file ELSE PathJoin(currentDir, file)
             relativePath == IF prefix # <<>> THEN PathJoin(prefix, file) ELSE file
         IN  walkEach(currentDir, prefix, excludeFiles, order, i + 1,
                 IF IsDirectory(fullPath)
                 THEN walk(fullPath, relativePath, excludeFiles, order, res)
                 ELSE recordFile(res, file, relativePath, fullPath))

walkEach(currentDir, prefix, excludeFiles, order, i, res) ==
    IF i > Len(order[currentDir]) THEN res
    ELSE LET file == order[currentDir][i]
             fullPath == IF currentDir = <<>> THEN file ELSE PathJoin(currentDir, file)
             relativePath == IF prefix # <<>> THEN PathJoin(prefix, file) ELSE file
         IN  walkEach(currentDir, prefix, excludeFiles, order, i + 1,
                 IF IsDirectory(fullPath)
                 THEN walk(fullPath, relativePath, excludeFiles, order, res)
                 ELSE IF file \notin excludeFiles
                 THEN recordFile(res, file, relativePath, fullPath)
                 ELSE res)

walk(currentDir, prefix, excludeFiles, order, res) ==
    walkEach(currentDir, prefix, excludeFiles, order, 1, res)

\* scanDirectory(KNOWLEDGE_DIR, basePath, excludeFiles); <<>> is KNOWLEDGE_DIR itself
scanDirectory(basePath, excludeFiles, order) ==
    walk(<<>>, basePath, excludeFiles, order, EmptyResults)

\* line 179 of main: const results = scanDirectory(KNOWLEDGE_DIR, '', ['manifest.json'])
Scan ==
    /\ \E order \in ReaddirOrders(Directories) :
         scans' = (IF Len(scans) < 2 THEN scans ELSE Tail(scans))
                    \o <<scanDirectory(<<>>, {sManifestJson}, order)>>
    /\ UNCHANGED tree
    /\ UNCHANGED vvars
    /\ UNCHANGED rvars

\* a file of the tree is created or overwritten (by an editor, between two runs)
WriteFile ==
    /\ \E p \in ScanPaths, bytes \in FileBytes :
         /\ p \in DOMAIN tree => tree[p] # bytes
         /\ Cardinality(DOMAIN tree \cup {p}) <= MaxFiles
         /\ tree' = [q \in DOMAIN tree \cup {p} |-> IF q = p THEN bytes ELSE tree[q]]
    /\ scans' = <<>>
    /\ UNCHANGED vvars
    /\ UNCHANGED rvars

\* a file of the tree is deleted
DeleteFile ==
    /\ \E p \in DOMAIN tree : tree' = [q \in DOMAIN tree \ {p} |-> tree[q]]
    /\ scans' = <<>>
    /\ UNCHANGED vvars
    /\ UNCHANGED rvars

\* the validator is not running
ValidatorIdle ==
    /\ cwd = cwdRoot /\ blocksDirExists = FALSE /\ blockEntries = {} /\ args = <<>>
    /\ pc = "exited" /\ filesToValidate = <<>> /\ results = <<>> /\ hasErrors = FALSE
    /\ output = <<>> /\ reads = <<>> /\ lastContent = NoContent /\ exitCode = 0

GeneratorInit ==
    /\ tree \in UNION {[S -> FileBytes] : S \in {T \in SUBSET ScanPaths : Cardinality(T) <= MaxFiles}}
    /\ scans = <<>>
    /\ ValidatorIdle
    /\ ReleaseIdle

GeneratorNext == Scan \/ WriteFile \/ DeleteFile

GeneratorSpec == GeneratorInit /\ [][GeneratorNext]_<<gvars, vvars, rvars>>

(***************************************************************************)
(* Claims about the checksum generator                                     *)
(***************************************************************************)

\* the checksums object as a mapping: its set of (relative path, digest) entries
ChecksumsMap(res) == {<<res.checksums[i].key, res.checksums[i].value>> : i \in 1..Len(res.checksums)}

\* C9: two scans of a tree that was not modified in between return the same mapping of
\* relative paths to digests, whatever order readdirSync listed the directories in.
C9_ScanIsDeterministic ==
    Len(scans) = 2 =>
      /\ ChecksumsMap(scans[1]) = ChecksumsMap(scans[2])
      /\ \A i, j \in 1..Len(scans[2].checksums) :
            scans[2].checksums[i].key = scans[2].checksums[j].key => i = j

\* two scans of the same tree visited its files in different orders
C9_Witness ==
    /\ Len(scans) = 2
    /\ scans[1].files # scans[2].files
    /\ Len(scans[1].files) >= 2

\* the characters of the model's file names, in ascending UTF-16 code unit order
CodeOrder ==
    <<".", "/", "a", "b", "c", "d", "e", "f", "g", "h", "i", "j", "k", "l", "m", "n", "o",
      "p", "q", "r", "s", "t", "u", "v", "w", "x", "y", "z">>
CodeOf(ch) == CHOOSE i \in 1..Len(CodeOrder) : CodeOrder[i] = ch

\* a sorts before b in the order of Array.prototype.sort without a comparator
LexLess(a, b) ==
    \E k \in 1..(Len(b)) :
       /\ \A j \in 1..(k - 1) : j <= Len(a) /\ a[j] = b[j]
       /\ (k > Len(a) \/ CodeOf(a[k]) < CodeOf(b[k]))

\* the entries of each directory in lexicographically sorted order
SortedOrder ==
    [d \in Directories |->
        CHOOSE l \in Listings(EntriesOf(d)) :
            \A i, j \in 1..Len(l) : i < j => LexLess(l[i], l[j])]

\* C10: every scan visits the entries of every directory in sorted order, so the files
\* and the keys of checksums are recorded in the order of the sorted walk.
C10_WalkIsSorted ==
    \A n \in 1..Len(scans) :
       /\ scans[n].files = scanDirectory(<<>>, {sManifestJson}, SortedOrder).files
       /\ scans[n].checksums = scanDirectory(<<>>, {sManifestJson}, SortedOrder).checksums

\* the validator alone: the content tree of the generator plays no part
ValidatorNext == MainStart \/ ValidateNext \/ MainExit

ValidatorSpec == ValidatorInit /\ [][ValidatorNext]_<<vvars, gvars, rvars>>

(***************************************************************************)
(* scripts/generate-checksums.js : the manifest and main                   *)
(***************************************************************************)
\* JSON.stringify(value, null, 2): the text of a JSON value, kept as the value between
\* its braces; JSON.parse gives the value back
JSONstringify(value) == <<"{", value, "}">>

\* whether JSON.parse accepts a text: of the texts of the model only a stringified
\* value is JSON (the byte contents of FileBytes, one or two bytes long, are not)
IsJsonText(text) == Len(text) = Len(JSONstringify(<<>>))

\* JSON.parse of a text it accepts
JSONparse(text) == text[2]

\* obj[key] on an object kept as its entries: whether the key is there, and its value
HasKey(obj, key) == \E i \in 1..Len(obj) : obj[i].key = key
GetKey(obj, key) == obj[CHOOSE i \in 1..Len(obj) : obj[i].key = key].value

\* the keys of an object, as a set
KeysOf(obj) == {obj[i].key : i \in 1..Len(obj)}

\* formatSize: the size with its unit, the number kept as a number
formatSize(bytes) ==
    IF bytes < 1024 THEN <<bytes, "B">>
    ELSE IF bytes < 1024 * 1024 THEN <<(2 * bytes + 1024) \div (2 * 1024), "KB">>
    ELSE <<(2 * bytes + 1024 * 1024) \div (2 * 1024 * 1024), "MB">>

sBlocksDir == <<"b", "l", "o", "c", "k", "s", "/">>
sResourcesDir == <<"r", "e", "s", "o", "u", "r", "c", "e", "s", "/">>

\* categorizeFiles: the files of each category, in the order of files
categorizeFiles(files) ==
    [blocks |-> SelectSeq(files, LAMBDA file : StartsWith(file.path, sBlocksDir)),
     resources |-> SelectSeq(files, LAMBDA file : ~StartsWith(file.path, sBlocksDir)
                                                  /\ StartsWith(file.path, sResourcesDir)),
     other |-> SelectSeq(files, LAMBDA file : ~StartsWith(file.path, sBlocksDir)
                                              /\ ~StartsWith(file.path, sResourcesDir))]

\* path.basename(p, ext): the last component of p, without ext when it ends in ext
\* and is longer than ext
pathBasename(p, ext) ==
    LET slashes == Positions(p, "/")
        name == IF slashes = {} THEN p ELSE SubSeq(p, Greatest(slashes) + 1, Len(p))
    IN  IF EndsWith(name, ext) /\ Len(name) > Len(ext)
        THEN SubSeq(name, 1, Len(name) - Len(ext)) ELSE name

\* new Date().toISOString() at an instant
toISOString(instant) == [iso |-> instant]

\* the version of a manifest the generator creates
sZeroVersion == <<"0", ".", "0", ".", "0">>

\* lines 96..99: the manifest the generator starts from when there is no manifest.json
NewManifest(now) ==
    <<[key |-> "version", value |-> sZeroVersion],
      [key |-> "released", value |-> toISOString(now)]>>

\* lines 121..128: the entry of one block in manifest.blocks
RECURSIVE updateBlocks(_, _, _)
updateBlocks(blocks, files, i) ==
    IF i > Len(files) THEN blocks
    ELSE LET block == files[i]
             blockName == pathBasename(block.path, sDotYaml)
             entry == IF HasKey(blocks, blockName) THEN GetKey(blocks, blockName) ELSE <<>>
             withChecksum == ObjectSet(entry, "checksum", block.checksum)
             withSize == ObjectSet(withChecksum, "size", formatSize(block.size))
         IN  updateBlocks(ObjectSet(blocks, blockName, withSize), files, i + 1)

\* updateManifest as it would be if it always started from a new manifest
updateManifest_StartFresh(res, exists, text, now) ==
    LET withChecksums == ObjectSet(NewManifest(now), "checksums", res.checksums)
        withSize == ObjectSet(withChecksums, "size", formatSize(res.totalSize))
        categories == categorizeFiles(res.files)
        withStatistics ==
            ObjectSet(withSize, "statistics",
                      [totalFiles |-> res.fileCount,
                       totalSize |-> formatSize(res.totalSize),
                       blocks |-> Len(categories.blocks),
                       resources |-> Len(categories.resources),
                       lastUpdated |-> toISOString(now)])
    IN  ObjectSet(withStatistics, "blocks", updateBlocks(<<>>, categories.blocks, 1))

\* updateManifest as it would be if every run set the release time
updateManifest_SetsReleased(res, exists, text, now) ==
    LET manifest == IF exists THEN JSONparse(text) ELSE NewManifest(now)
        withReleased == ObjectSet(manifest, "released", toISOString(now))
        withChecksums == ObjectSet(withReleased, "checksums", res.checksums)
        withSize == ObjectSet(withChecksums, "size", formatSize(res.totalSize))
        categories == categorizeFiles(res.files)
        withStatistics ==
            ObjectSet(withSize, "statistics",
                      [totalFiles |-> res.fileCount,
                       totalSize |-> formatSize(res.totalSize),
                       blocks |-> Len(categories.blocks),
                       resources |-> Len(categories.resources),
                       lastUpdated |-> toISOString(now)])
        blocks == IF HasKey(withStatistics, "blocks")
                  THEN GetKey(withStatistics, "blocks") ELSE <<>>
    IN  ObjectSet(withStatistics, "blocks", updateBlocks(blocks, categories.blocks, 1))

\* lines 90..128 of updateManifest: the manifest object that is written; text is the
\* text of manifest.json when it exists
updateManifest(res, exists, text, now) ==
    LET manifest == IF exists THEN JSONparse(text) ELSE NewManifest(now)
        withChecksums == ObjectSet(manifest, "checksums", res.checksums)
        withSize == ObjectSet(withChecksums, "size", formatSize(res.totalSize))
        categories == categorizeFiles(res.files)
        withStatistics ==
            ObjectSet(withSize, "statistics",
                      [totalFiles |-> res.fileCount,
                       totalSize |-> formatSize(res.totalSize),
                       blocks |-> Len(categories.blocks),
                       resources |-> Len(categories.resources),
                       lastUpdated |-> toISOString(now)])
        blocks == IF HasKey(withStatistics, "blocks")
                  THEN GetKey(withStatistics, "blocks") ELSE <<>>
    IN  ObjectSet(withStatistics, "blocks", updateBlocks(blocks, categories.blocks, 1))

\* the command-line flags of the scripts
sDryRun == <<"-", "-", "d", "r", "y", "-", "r", "u", "n">>
sJson == <<"-", "-", "j", "s", "o", "n">>
sUpdateManifest == <<"-", "-", "u", "p", "d", "a", "t", "e", "-", "m", "a", "n", "i", "f", "e", "s", "t">>

\* args.includes(flag)
ArgsInclude(arguments, flag) == \E i \in 1..Len(arguments) : arguments[i] = flag

\* the file system call that fails during a run, if any
NoFailure == [call |-> "none", path |-> <<>>]
FsFailures ==
    {NoFailure}
      \cup {[call |-> "readdir", path |-> d] : d \in Directories}
      \cup {[call |-> c, path |-> p] : c \in {"stat", "read"}, p \in DOMAIN tree}

\* the last component of a path
LastName(p) ==
    IF Positions(p, "/") = {} THEN p ELSE SubSeq(p, Greatest(Positions(p, "/")) + 1, Len(p))

\* scanDirectory as it would be if it went on after a failing call
ScanThrows_Never(failure, excludeFiles) == FALSE

\* whether scanDirectory throws: walk reads every directory (41) and stats every entry
\* (46), and reads every file it does not exclude (17, 22)
ScanThrows(failure, excludeFiles) ==
    \/ failure.call \in {"readdir", "stat"}
    \/ failure.call = "read" /\ LastName(failure.path) \notin excludeFiles

\* whether updateManifest throws before it writes: readFileSync or JSON.parse (94)
UpdateThrows(failure, exists, text) ==
    exists /\ (failure = [call |-> "read", path |-> sManifestJson] \/ ~IsJsonText(text))

\* lines 173..204: what one run of main does, given what scanDirectory returns when
\* it does not throw (line 179) and the file system call that fails
generateMain(arguments, res, failure, now) ==
    LET exists == sManifestJson \in DOMAIN tree
        text == IF exists THEN tree[sManifestJson] ELSE <<>>
        unchanged == [wrote |-> FALSE, text |-> text]
    IN  IF ScanThrows(failure, {sManifestJson})
        THEN unchanged @@ [exitCode |-> 1]
        ELSE IF res.fileCount = 0
        THEN unchanged @@ [exitCode |-> 0]
        ELSE IF ArgsInclude(arguments, sDryRun)
        THEN unchanged @@ [exitCode |-> 0]
        ELSE IF UpdateThrows(failure, exists, text)
        THEN unchanged @@ [exitCode |-> 1]
        ELSE [unchanged EXCEPT !.wrote = TRUE,
                               !.text = JSONstringify(updateManifest(res, exists, text, now))]
               @@ [exitCode |-> 0]

\* fs.writeFileSync(path, text) on the tree
WriteFileSync(path, text) ==
    [q \in DOMAIN tree \cup {path} |-> IF q = path THEN text ELSE tree[q]]

\* the command lines generate-checksums.js is run with
GenerateArgs == {<<>>, <<sDryRun>>, <<sJson>>, <<sJson, sDryRun>>}

\* the content files of the model: the paths of a tree other than the manifest
ContentPaths == TreePaths \ {sManifestJson}

\* the most content files the tree of a release holds
MaxContent == 2

\* the last instant of the clock: each run of a script and each edit of a file takes
\* one instant, so a behaviour holds fewer than MaxClock of them
MaxClock == 4

\* where a failing file system call lies: in the traversal of scanDirectory, or in
\* the read of manifest.json by updateManifest
FaultOf(failure) ==
    IF failure.call = "none" THEN "none"
    ELSE IF failure = [call |-> "read", path |-> sManifestJson] THEN "manifest"
    ELSE "traversal"

\* one run of generate-checksums.js in which one of the given file system calls fails
\* (or none, for NoFailure); new Date() reads the clock
GenerateRun(failures) ==
    /\ clock < MaxClock
    /\ \E order \in ReaddirOrders(Directories) :
         LET res == scanDirectory(<<>>, {sManifestJson}, order)
         IN  \E failure \in failures, arguments \in GenerateArgs :
               LET out == generateMain(arguments, res, failure, clock)
               IN  /\ tree' = IF out.wrote THEN WriteFileSync(sManifestJson, out.text)
                              ELSE tree
                   /\ run' = [NoRun EXCEPT !.script = "generate", !.args = arguments,
                                           !.exitCode = out.exitCode, !.wrote = out.wrote,
                                           !.hadManifest = sManifestJson \in DOMAIN tree,
                                           !.fault = FaultOf(failure),
                                           !.path = IF run.script = "edit" /\ run.clean
                                                    THEN run.path ELSE <<>>,
                                           !.prior = IF out.wrote THEN JSONparse(out.text)
                                                     ELSE run.prior]
    /\ clock' = clock + 1
    /\ UNCHANGED <<scans, tags, today, releases>>
    /\ UNCHANGED vvars

\* a run of generate-checksums.js on a file system that works
GenerateMain == GenerateRun({NoFailure})

\* a run of generate-checksums.js in which a file system call may fail
GenerateMainFailing == GenerateRun(FsFailures)

\* a manifest as docs/release-strategy.md shows it, with the block entry its
\* prepare-release.js writes (version, updated, checksum) and a field no script knows
sDocVersion == <<"2", "0", "2", "4", ".", "1", "2", ".", "1", "5", ".", "0">>
DocManifest ==
    <<[key |-> "version", value |-> sDocVersion],
      [key |-> "released", value |-> toISOString(0)],
      [key |-> "changelog", value |-> "Added Docker setup guide"],
      [key |-> "size", value |-> <<245, "KB">>],
      [key |-> "checksums",
       value |-> <<[key |-> pCatalog, value |-> <<"sha256:", getFileChecksum(<<0>>)>>]>>],
      [key |-> "blocks",
       value |-> <<[key |-> <<"a">>,
                    value |-> <<[key |-> "version", value |-> <<1, 2, 0>>],
                                [key |-> "updated", value |-> toISOString(0)],
                                [key |-> "checksum", value |-> getFileChecksum(<<0>>)]>>]>>]>>

\* a file is created or overwritten by hand; a manifest written by hand is no JSON
EditFile ==
    /\ clock < MaxClock
    /\ \E p \in TreePaths, bytes \in FileBytes :
         /\ p \in DOMAIN tree /\ p # sManifestJson => tree[p] # bytes
         /\ Cardinality((DOMAIN tree \cup {p}) \ {sManifestJson}) <= MaxContent
         /\ tree' = WriteFileSync(p, bytes)
         /\ run' = [NoRun EXCEPT !.script = "edit", !.path = p,
                                 !.clean = (run.script = "generate" /\ run.wrote)]
    /\ clock' = clock + 1
    /\ UNCHANGED <<scans, tags, today, releases>>
    /\ UNCHANGED vvars

\* a file is deleted
RemoveFile ==
    /\ clock < MaxClock
    /\ \E p \in DOMAIN tree :
         /\ tree' = [q \in DOMAIN tree \ {p} |-> tree[q]]
         /\ run' = [NoRun EXCEPT !.script = "remove", !.path = p]
    /\ clock' = clock + 1
    /\ UNCHANGED <<scans, tags, today, releases>>
    /\ UNCHANGED vvars

\* a content tree, with no manifest or with the manifest of the documentation
ManifestInit ==
    /\ \E content \in UNION {[S -> FileBytes] :
                               S \in {T \in SUBSET ContentPaths : Cardinality(T) <= MaxContent}} :
         tree \in {content, content @@ (sManifestJson :> JSONstringify(DocManifest))}
    /\ scans = <<>>
    /\ run = NoRun /\ clock = 1 /\ tags = {} /\ today = 1 /\ releases = <<>>
    /\ ValidatorIdle

ManifestNext == GenerateMain \/ EditFile \/ RemoveFile

ManifestSpec == ManifestInit /\ [][ManifestNext]_<<gvars, rvars, vvars>>

(***************************************************************************)
(* Claims about the manifest                                               *)
(***************************************************************************)

\* the manifest object a tree holds, when its manifest.json is there and is JSON
HasManifest(t) == sManifestJson \in DOMAIN t /\ IsJsonText(t[sManifestJson])
ManifestOf(t) == JSONparse(t[sManifestJson])

\* the content files of a tree: every regular file but manifest.json
ContentOf(t) == DOMAIN t \ {sManifestJson}

\* the sum of the sizes of a set of files of the tree
RECURSIVE SizeOf(_)
SizeOf(paths) ==
    IF paths = {} THEN 0
    ELSE LET p == CHOOSE q \in paths : TRUE IN Len(tree[p]) + SizeOf(paths \ {p})

\* the last event was a run of generate-checksums.js that wrote the manifest
GenerateWrote == run.script = "generate" /\ run.wrote

\* C11: manifest.json is never a key of the checksums of the manifest, and right after a
\* run that wrote the manifest, the file count and the sizes it records are those of the
\* content files alone.
C11_ManifestExcluded ==
    /\ (HasManifest(tree) /\ HasKey(ManifestOf(tree), "checksums"))
         => sManifestJson \notin KeysOf(GetKey(ManifestOf(tree), "checksums"))
    /\ GenerateWrote =>
         /\ GetKey(ManifestOf(tree), "statistics").totalFiles = Cardinality(ContentOf(tree))
         /\ GetKey(ManifestOf(tree), "statistics").totalSize
              = formatSize(SizeOf(ContentOf(tree)))
         /\ GetKey(ManifestOf(tree), "size") = formatSize(SizeOf(ContentOf(tree)))

\* a run scanned a tree that held a manifest and wrote the manifest again
C11_Witness ==
    /\ GenerateWrote /\ run.hadManifest
    /\ Cardinality(ContentOf(tree)) = 2

\* the digest the manifest of a tree records for a path
DigestIn(t, path) == GetKey(GetKey(ManifestOf(t), "checksums"), path)

\* C12: when one content file was overwritten with other bytes between two runs that
\* wrote the manifest, the digest the second run records for it differs from the digest
\* the first run recorded.
C12_ChangedFileChangesDigest ==
    [][(/\ run.script = "edit" /\ run.clean /\ run.path # sManifestJson
        /\ HasKey(GetKey(ManifestOf(tree), "checksums"), run.path)
        /\ run'.script = "generate" /\ run'.wrote)
         => /\ HasKey(GetKey(ManifestOf(tree'), "checksums"), run.path)
            /\ DigestIn(tree', run.path) # DigestIn(tree, run.path)
            /\ DigestIn(tree', run.path) = <<"sha256:", getFileChecksum(tree'[run.path])>>
      ]_<<gvars, rvars, vvars>>

\* a run recorded a block that was overwritten since the run before it
C12_Witness ==
    /\ GenerateWrote /\ run.path = pBlockA /\ run.hadManifest
    /\ DigestIn(tree, pBlockA) = <<"sha256:", getFileChecksum(<<1, 1>>)>>

\* the step is a run of generate-checksums.js that wrote the manifest
GenerateWrites == run'.script = "generate" /\ run'.wrote

\* the fields of the manifest the generator writes
GeneratorFields == {"checksums", "size", "statistics", "blocks"}

\* the checksums a scan of a tree gives, as a mapping: one entry per content file
ChecksumsOf(t) == {<<q, <<"sha256:", getFileChecksum(t[q])>>>> : q \in ContentOf(t)}

\* the entries of an object, as a mapping
EntriesIn(obj) == {<<obj[i].key, obj[i].value>> : i \in 1..Len(obj)}

\* C13: a run that writes over an existing manifest replaces checksums, size and
\* statistics by the values of its scan, and leaves every field the generator does not
\* write (version and released among them) as it was.
C13_UpdateKeepsForeignFields ==
    [][(HasManifest(tree) /\ GenerateWrites) =>
         /\ \A k \in KeysOf(ManifestOf(tree)) \ GeneratorFields :
               /\ HasKey(ManifestOf(tree'), k)
               /\ GetKey(ManifestOf(tree'), k) = GetKey(ManifestOf(tree), k)
         /\ KeysOf(ManifestOf(tree')) = KeysOf(ManifestOf(tree)) \cup GeneratorFields
         /\ GetKey(ManifestOf(tree'), "version") = GetKey(ManifestOf(tree), "version")
         /\ GetKey(ManifestOf(tree'), "released") = GetKey(ManifestOf(tree), "released")
         /\ EntriesIn(GetKey(ManifestOf(tree'), "checksums")) = ChecksumsOf(tree')
         /\ Len(GetKey(ManifestOf(tree'), "checksums")) = Cardinality(ContentOf(tree'))
         /\ GetKey(ManifestOf(tree'), "size") = formatSize(SizeOf(ContentOf(tree)))
         /\ GetKey(ManifestOf(tree'), "statistics").totalFiles = Cardinality(ContentOf(tree'))
         /\ GetKey(ManifestOf(tree'), "statistics").lastUpdated = toISOString(clock)
      ]_<<gvars, rvars, vvars>>

\* a run wrote over the manifest of the documentation: its version, release time and
\* changelog are still there, its checksums entry of a file that is gone is not
C13_Witness ==
    /\ GenerateWrote /\ run.hadManifest
    /\ GetKey(ManifestOf(tree), "version") = sDocVersion
    /\ GetKey(ManifestOf(tree), "released") = toISOString(0)
    /\ HasKey(ManifestOf(tree), "changelog")
    /\ GetKey(ManifestOf(tree), "statistics").lastUpdated # toISOString(0)
    /\ pCatalog \notin KeysOf(GetKey(ManifestOf(tree), "checksums"))

\* the identifier of a block file: its name without .yaml (release-strategy.md)
BlockId(path) ==
    IF EndsWith(LastName(path), sDotYaml)
    THEN SubSeq(LastName(path), 1, Len(LastName(path)) - Len(sDotYaml))
    ELSE LastName(path)

\* the block files of a tree
BlockFiles(t) == {q \in ContentOf(t) : StartsWith(q, sBlocksDir)}

\* the blocks a manifest records
BlocksIn(t) ==
    IF HasManifest(t) /\ HasKey(ManifestOf(t), "blocks")
    THEN GetKey(ManifestOf(t), "blocks") ELSE <<>>

\* a semantic version with its patch component incremented
BumpPatch(version) == <<version[1], version[2], version[3] + 1>>

\* C14: on a run that writes the manifest, a block recorded with a version and a digest
\* gets its patch incremented and its updated time refreshed when the digest of its
\* file differs from the recorded one, and keeps both when the digest is the same.
C14_ChangedBlockIsBumped ==
    [][GenerateWrites =>
         \A q \in BlockFiles(tree') :
            (/\ HasKey(BlocksIn(tree), BlockId(q))
             /\ HasKey(GetKey(BlocksIn(tree), BlockId(q)), "version")
             /\ HasKey(GetKey(BlocksIn(tree), BlockId(q)), "checksum")) =>
               LET old == GetKey(BlocksIn(tree), BlockId(q))
                   new == GetKey(BlocksIn(tree'), BlockId(q))
               IN  /\ HasKey(BlocksIn(tree'), BlockId(q))
                   /\ HasKey(new, "version") /\ HasKey(new, "updated")
                   /\ IF GetKey(old, "checksum") # getFileChecksum(tree'[q])
                      THEN /\ GetKey(new, "version") = BumpPatch(GetKey(old, "version"))
                           /\ GetKey(new, "updated") = toISOString(clock)
                      ELSE /\ GetKey(new, "version") = GetKey(old, "version")
                           /\ GetKey(new, "updated") = GetKey(old, "updated")
      ]_<<gvars, rvars, vvars>>

\* C15: on a run that writes the manifest, a block with no entry in the blocks of the
\* manifest before gets an entry whose version is 1.0.0.
C15_NewBlockStartsAtOne ==
    [][GenerateWrites =>
         \A q \in BlockFiles(tree') :
            ~HasKey(BlocksIn(tree), BlockId(q)) =>
               /\ HasKey(BlocksIn(tree'), BlockId(q))
               /\ HasKey(GetKey(BlocksIn(tree'), BlockId(q)), "version")
               /\ GetKey(GetKey(BlocksIn(tree'), BlockId(q)), "version") = <<1, 0, 0>>
      ]_<<gvars, rvars, vvars>>

(***************************************************************************)
(* bump-version.js                                                         *)
(***************************************************************************)

\* the decimal digits, in order
Digits == <<"0", "1", "2", "3", "4", "5", "6", "7", "8", "9">>

\* the regular expression class \d
IsDigit(ch) == \E i \in 1..Len(Digits) : Digits[i] = ch

\* String(n) of a non-negative integer: its decimal numeral
RECURSIVE String(_)
String(n) ==
    IF n < Len(Digits) THEN <<Digits[n + 1]>>
    ELSE String(n \div Len(Digits)) \o <<Digits[(n % Len(Digits)) + 1]>>

\* String.prototype.padStart with a one-character pad string
RECURSIVE padStart(_, _, _)
padStart(s, targetLength, padString) ==
    IF Len(s) >= targetLength THEN s
    ELSE padStart(<<padString>> \o s, targetLength, padString)

\* parseInt(s, 10) of a run of digits
RECURSIVE parseInt(_)
parseInt(s) ==
    IF Len(s) = 0 THEN 0
    ELSE parseInt(SubSeq(s, 1, Len(s) - 1)) * Len(Digits)
         + ((CHOOSE i \in 1..Len(Digits) : Digits[i] = s[Len(s)]) - 1)

\* the calendar days new Date() can fall on, in order
Days ==
    << [year |-> 2024, month |-> 12, day |-> 15],
       [year |-> 2024, month |-> 12, day |-> 16],
       [year |-> 2025, month |-> 1, day |-> 5] >>

\* `git tag -l` as getGitTags returns it: the tags, or nothing when git fails
getGitTags_None(repoTags, gitWorks) == {}
getGitTags(repoTags, gitWorks) == IF gitWorks THEN repoTags ELSE {}

\* lines 25..29: the date part of the version
baseVersionOf(date) ==
    String(date.year) \o <<".">> \o padStart(String(date.month), 2, "0")
        \o <<".">> \o padStart(String(date.day), 2, "0")

\* the position after the run of digits of s that starts at position i
DigitsEnd(s, i) ==
    Least({j \in i..(Len(s) + 1) : IF j > Len(s) THEN TRUE ELSE ~IsDigit(s[j])})

\* whether s has a non-empty run of digits at position i that a dot follows
NumberDotAt(s, i) ==
    /\ i <= Len(s)
    /\ DigitsEnd(s, i) > i
    /\ DigitsEnd(s, i) <= Len(s)
    /\ s[DigitsEnd(s, i)] = "."

\* whether /v\d+\.\d+\.\d+\.(\d+)/ matches tag with its v at position i
PatchPatternAt(tag, i) ==
    /\ tag[i] = "v"
    /\ NumberDotAt(tag, i + 1)
    /\ NumberDotAt(tag, DigitsEnd(tag, i + 1) + 1)
    /\ NumberDotAt(tag, DigitsEnd(tag, DigitsEnd(tag, i + 1) + 1) + 1)
    /\ LET patchAt == DigitsEnd(tag, DigitsEnd(tag, DigitsEnd(tag, i + 1) + 1) + 1) + 1
       IN  patchAt <= Len(tag) /\ DigitsEnd(tag, patchAt) > patchAt

\* tag.match(/v\d+\.\d+\.\d+\.(\d+)/): whether it matches, and the group of the
\* leftmost match
matchPatch(tag) ==
    LET starts == {i \in 1..Len(tag) : PatchPatternAt(tag, i)}
    IN  IF starts = {} THEN [matched |-> FALSE, group |-> <<>>]
        ELSE LET i == Least(starts)
                 patchAt == DigitsEnd(tag, DigitsEnd(tag, DigitsEnd(tag, i + 1) + 1) + 1) + 1
             IN  [matched |-> TRUE,
                  group |-> SubSeq(tag, patchAt, DigitsEnd(tag, patchAt) - 1)]

\* line 33 as it would be without the filter
todayTagsOf_All(tagList, baseVersion) == tagList

\* line 33: the tags that include v<baseVersion>.
todayTagsOf(tagList, baseVersion) ==
    {tag \in tagList : Includes(tag, <<"v">> \o baseVersion \o <<".">>)}

\* lines 40..49 as they would be if the patch were the number of tags of the day
maxPatchOf_Count(todayTags) == Cardinality(todayTags) - 1

\* lines 40..49: the highest patch number of the tags, -1 when none matches
maxPatchOf(todayTags) ==
    LET patches == {parseInt(matchPatch(tag).group) :
                       tag \in {t \in todayTags : matchPatch(t).matched}}
    IN  IF patches = {} THEN -1 ELSE Greatest(patches)

\* generateVersion, on the day of the clock and the tags of the repository
generateVersion(repoTags, gitWorks, date) ==
    LET baseVersion == baseVersionOf(date)
        todayTags == todayTagsOf(getGitTags(repoTags, gitWorks), baseVersion)
    IN  IF todayTags = {} THEN baseVersion \o <<".", "0">>
        ELSE baseVersion \o <<".">> \o String(maxPatchOf(todayTags) + 1)

\* the tag a release gets: v<version> (line 97)
TagOf(version) == <<"v">> \o version

\* the tag `latest` the release workflow moves
sLatest == <<"l", "a", "t", "e", "s", "t">>

\* a tag of the first day whose last component is not a number
sOddTag == TagOf(baseVersionOf(Days[1]) \o <<".", "x">>)

\* the tags a repository may hold before the first run
TagUniverse ==
    {TagOf(baseVersionOf(Days[1]) \o <<".">> \o String(n)) : n \in {0, 1, 2, 9, 10}}
        \cup {TagOf(baseVersionOf(Days[2]) \o <<".", "0">>), sLatest, sOddTag}

\* the number of releases of a behaviour
MaxReleases == 3

\* a run of bump-version.js with no argument: it prints the generated version
BumpVersion ==
    /\ \E gitWorks \in BOOLEAN :
         run' = [NoRun EXCEPT !.script = "bump",
                              !.version = generateVersion(tags, gitWorks, Days[today]),
                              !.gitWorked = gitWorks, !.seen = tags, !.day = today]
    /\ UNCHANGED <<clock, tags, today, releases>>
    /\ UNCHANGED gvars
    /\ UNCHANGED vvars

\* `git tag v<version>` with the version the last run printed: a release
TagRelease ==
    /\ run.script = "bump" /\ run.gitWorked /\ ~run.tagged
    /\ Len(releases) < MaxReleases
    /\ tags' = tags \cup {TagOf(run.version)}
    /\ releases' = Append(releases, [version |-> run.version, day |-> run.day])
    /\ run' = [run EXCEPT !.tagged = TRUE]
    /\ UNCHANGED <<clock, today>>
    /\ UNCHANGED gvars
    /\ UNCHANGED vvars

\* midnight passes
NextDay ==
    /\ today < Len(Days)
    /\ today' = today + 1
    /\ UNCHANGED <<run, clock, tags, releases>>
    /\ UNCHANGED gvars
    /\ UNCHANGED vvars

VersionInit ==
    /\ tags \in SUBSET TagUniverse
    /\ today = 1
    /\ run = NoRun /\ clock = 0 /\ releases = <<>>
    /\ tree = <<>> /\ scans = <<>>
    /\ ValidatorIdle

VersionNext == BumpVersion \/ TagRelease \/ NextDay

VersionSpec == VersionInit /\ [][VersionNext]_<<rvars, gvars, vvars>>

(***************************************************************************)
(* Claims about the version of a release                                   *)
(***************************************************************************)

\* the numeral of n in two digits, and in four
TwoDigits(n) == <<Digits[(n \div 10) + 1], Digits[(n % 10) + 1]>>
FourDigits(n) == TwoDigits(n \div 100) \o TwoDigits(n % 100)

\* the patch numbers of one or two digits
PatchNumbers == 0..99

\* the version YYYY.MM.DD.PATCH of a day and a patch number
VersionText(date, patch) ==
    FourDigits(date.year) \o <<".">> \o TwoDigits(date.month) \o <<".">>
        \o TwoDigits(date.day) \o <<".">>
        \o (IF patch < 10 THEN <<Digits[patch + 1]>> ELSE TwoDigits(patch))

\* the patch numbers the release tags of a day use, in a set of tags
UsedPatches(tagSet, date) == {p \in PatchNumbers : TagOf(VersionText(date, p)) \in tagSet}

\* the tags of a set that are release tags v<YYYY.MM.DD.PATCH>
ReleaseTags(tagSet) ==
    UNION {{TagOf(VersionText(Days[d], p)) : p \in UsedPatches(tagSet, Days[d])} :
              d \in 1..Len(Days)}

\* the last event was a run of bump-version.js that read the tags of the repository
Generated == run.script = "bump" /\ run.gitWorked

\* C18 as stated: the patch of the generated version is the smallest non-negative
\* integer that no release tag of today uses.
C18_SmallestUnusedPatch ==
    Generated =>
        run.version = VersionText(Days[run.day],
                                  Least(PatchNumbers \ UsedPatches(run.seen, Days[run.day])))

\* C18: the generated version is YYYY.MM.DD.PATCH of today, where PATCH is used by no
\* release tag of today and is one greater than the largest patch number used (0 when
\* none is used), whether or not the used numbers have gaps.
C18_PatchAboveEveryUsed ==
    Generated =>
        \E p \in PatchNumbers :
            /\ run.version = VersionText(Days[run.day], p)
            /\ p \notin UsedPatches(run.seen, Days[run.day])
            /\ \A u \in UsedPatches(run.seen, Days[run.day]) : u < p
            /\ (p = 0 \/ (p - 1) \in UsedPatches(run.seen, Days[run.day]))

\* a version was generated while the patch numbers 0 and 2 were used: it has patch 3
C18_Witness ==
    /\ Generated
    /\ UsedPatches(run.seen, Days[run.day]) = {0, 2}
    /\ run.version = VersionText(Days[run.day], 3)

\* C19: when every tag is the tag of a release identifier YYYY.MM.DD.PATCH, the
\* generated version is today's date with a patch one greater than the greatest patch
\* among the identifiers of today, or patch 0 when there is none for today; with
\* 2024.12.15.0 and 2024.12.15.1 on 2024-12-15 it is 2024.12.15.2.
C19_NextPatchOfToday ==
    (Generated /\ run.seen = ReleaseTags(run.seen)) =>
        /\ run.version =
              baseVersionOf(Days[run.day]) \o <<".">> \o
                 (IF UsedPatches(run.seen, Days[run.day]) = {} THEN <<"0">>
                  ELSE String(Greatest(UsedPatches(run.seen, Days[run.day])) + 1))
        /\ run.version =
              VersionText(Days[run.day],
                          IF UsedPatches(run.seen, Days[run.day]) = {} THEN 0
                          ELSE Greatest(UsedPatches(run.seen, Days[run.day])) + 1)
        /\ (run.day = 1 /\ UsedPatches(run.seen, Days[1]) = {0, 1}) =>
              run.version = <<"2", "0", "2", "4", ".", "1", "2", ".", "1", "5", ".", "2">>

\* the version 2024.12.15.2 was generated on 2024-12-15 from the tags of 2024.12.15.0,
\* 2024.12.15.1 and of a release of another day
C19_Witness ==
    /\ Generated /\ run.day = 1
    /\ run.seen = {TagOf(VersionText(Days[1], 0)), TagOf(VersionText(Days[1], 1)),
                   TagOf(VersionText(Days[2], 0))}
    /\ run.version = <<"2", "0", "2", "4", ".", "1", "2", ".", "1", "5", ".", "2">>

\* the number of releases before the i-th that were made on the same day
EarlierSameDay(i) ==
    Cardinality({j \in 1..(i - 1) : releases[j].day = releases[i].day})

\* C20: the versions of the releases are pairwise distinct, a generated version is never
\* the version of an existing tag, and when every release tag of the repository comes
\* from these releases, the first release of a day has patch 0 and each further release
\* of the day the patch of the one before plus one.
C20_ReleasesAreDistinct ==
    /\ \A i, j \in 1..Len(releases) : i # j => releases[i].version # releases[j].version
    /\ Generated => TagOf(run.version) \notin run.seen
    /\ (ReleaseTags(tags) = {TagOf(releases[i].version) : i \in 1..Len(releases)}) =>
          \A i \in 1..Len(releases) :
             releases[i].version = VersionText(Days[releases[i].day], EarlierSameDay(i))

\* three releases, two of them on one day, in a repository whose only other tag is
\* `latest`
C20_Witness ==
    /\ Len(releases) = MaxReleases
    /\ releases[1].day = releases[2].day
    /\ releases[2].day # releases[3].day
    /\ sLatest \in tags
    /\ ReleaseTags(tags) = {TagOf(releases[i].version) : i \in 1..Len(releases)}

(***************************************************************************)
(* bump-version.js and generate-checksums.js on one manifest               *)
(***************************************************************************)

\* updateManifest of bump-version.js as it would be if it wrote a manifest of its own
updateManifestVersion_Fresh(version, text, now) ==
    <<[key |-> "version", value |-> version], [key |-> "released", value |-> toISOString(now)]>>

\* lines 54..72 of bump-version.js: the manifest object updateManifest writes
updateManifestVersion(version, text, now) ==
    ObjectSet(ObjectSet(JSONparse(text), "version", version), "released", toISOString(now))

\* a version given on the command line
sGivenVersion == <<"2", "0", "2", "4", ".", "1", "2", ".", "1", "5", ".", "7">>

\* the command lines bump-version.js is run with; an empty first argument is no
\* version (77)
BumpArgs ==
    {<<>>, <<sDryRun>>, <<sUpdateManifest>>, <<sUpdateManifest, sDryRun>>,
     <<sGivenVersion>>, <<sGivenVersion, sUpdateManifest>>, <<sGivenVersion, sDryRun>>,
     <<sGivenVersion, sUpdateManifest, sDryRun>>, <<sGivenVersion, sDryRun, sUpdateManifest>>,
     <<<<>>, sUpdateManifest>>}

\* lines 75..99 of bump-version.js as they would be with the flags tested in the
\* other order
bumpMain_UpdateFirst(arguments, repoTags, gitWorks, date, now) ==
    LET exists == sManifestJson \in DOMAIN tree
        text == IF exists THEN tree[sManifestJson] ELSE <<>>
        version == IF Len(arguments) > 0 /\ Len(arguments[1]) > 0 THEN arguments[1]
                   ELSE generateVersion(repoTags, gitWorks, date)
        unchanged == [wrote |-> FALSE, text |-> text, version |-> version]
    IN  IF ArgsInclude(arguments, sUpdateManifest) /\ exists /\ IsJsonText(text)
        THEN [unchanged EXCEPT !.wrote = TRUE,
                               !.text = JSONstringify(updateManifestVersion(version, text, now))]
               @@ [exitCode |-> 0]
        ELSE unchanged @@ [exitCode |-> 0]

\* lines 75..99 of bump-version.js: what one run of main does.  An argument is a
\* version when it is the first one and not empty (77); process.exit(1) without a
\* manifest (57..60), and an exception of JSON.parse (62) that nothing catches, end
\* the run with exit code 1 before the write
bumpMain(arguments, repoTags, gitWorks, date, now) ==
    LET exists == sManifestJson \in DOMAIN tree
        text == IF exists THEN tree[sManifestJson] ELSE <<>>
        version == IF Len(arguments) > 0 /\ Len(arguments[1]) > 0 THEN arguments[1]
                   ELSE generateVersion(repoTags, gitWorks, date)
        unchanged == [wrote |-> FALSE, text |-> text, version |-> version]
    IN  IF ArgsInclude(arguments, sDryRun)
        THEN unchanged @@ [exitCode |-> 0]
        ELSE IF ~ArgsInclude(arguments, sUpdateManifest)
        THEN unchanged @@ [exitCode |-> 0]
        ELSE IF ~exists
        THEN unchanged @@ [exitCode |-> 1]
        ELSE IF ~IsJsonText(text)
        THEN unchanged @@ [exitCode |-> 1]
        ELSE [unchanged EXCEPT !.wrote = TRUE,
                               !.text = JSONstringify(updateManifestVersion(version, text, now))]
               @@ [exitCode |-> 0]

\* one run of bump-version.js with one of the given command lines; new Date() reads
\* the clock, and git is asked for the tags only when no version is given (77)
BumpRun(commandLines) ==
    /\ clock < MaxClock
    /\ \E arguments \in commandLines :
       \E gitWorks \in IF Len(arguments) > 0 /\ Len(arguments[1]) > 0 THEN {FALSE} ELSE BOOLEAN :
         LET out == bumpMain(arguments, tags, gitWorks, Days[today], clock)
         IN  /\ tree' = IF out.wrote THEN WriteFileSync(sManifestJson, out.text) ELSE tree
             /\ run' = [NoRun EXCEPT !.script = "bump", !.args = arguments,
                                     !.exitCode = out.exitCode, !.wrote = out.wrote,
                                     !.hadManifest = sManifestJson \in DOMAIN tree,
                                     !.version = out.version,
                                     !.gitWorked = gitWorks, !.seen = tags, !.day = today,
                                     !.prior = run.prior]
    /\ clock' = clock + 1
    /\ UNCHANGED <<scans, tags, today, releases>>
    /\ UNCHANGED vvars

\* a run of bump-version.js with any of its command lines
BumpMain == BumpRun(BumpArgs)

\* a run of bump-version.js that is given a version, with or without --update-manifest
BumpGiven == BumpRun({<<sGivenVersion>>, <<sGivenVersion, sUpdateManifest>>})

\* a content tree with no manifest, with the manifest of the documentation, or with a
\* manifest.json that is not JSON; the repository has the tag of the documented
\* release, of today; two more instants, so two runs, remain
ScriptsInit ==
    /\ \E content \in UNION {[S -> FileBytes] :
                               S \in {T \in SUBSET ContentPaths : Cardinality(T) <= MaxContent}} :
         tree \in {content, content @@ (sManifestJson :> JSONstringify(DocManifest))}
                     \cup {content @@ (sManifestJson :> bytes) : bytes \in FileBytes}
    /\ scans = <<>>
    /\ run = NoRun /\ clock = MaxClock - 2 /\ today = 1 /\ releases = <<>>
    /\ tags = {TagOf(sDocVersion)}
    /\ ValidatorIdle

ScriptsNext == GenerateMainFailing \/ BumpMain

ScriptsSpec == ScriptsInit /\ [][ScriptsNext]_<<gvars, rvars, vvars>>

(***************************************************************************)
(* Claims about the runs of the two scripts                                *)
(***************************************************************************)

\* the step is a run of a script with --dry-run among its arguments
DryRuns == run'.script \in {"generate", "bump"} /\ ArgsInclude(run'.args, sDryRun)

\* C16: a run of generate-checksums.js or of bump-version.js with --dry-run leaves the
\* tree as it is, manifest.json neither created nor changed, whatever the other
\* arguments are.
C16_DryRunWritesNothing ==
    [][DryRuns => tree' = tree]_<<gvars, rvars, vvars>>

\* bump-version.js ran with a version, --update-manifest and --dry-run on a manifest
\* that holds another version, and the manifest still holds it
C16_Witness ==
    /\ run.script = "bump"
    /\ run.args = <<sGivenVersion, sUpdateManifest, sDryRun>>
    /\ run.version = sGivenVersion
    /\ HasManifest(tree)
    /\ GetKey(ManifestOf(tree), "version") # sGivenVersion

\* the step is a run of generate-checksums.js that comes to update the manifest: its
\* scan succeeds and finds a file, and --dry-run is not given
ReachesUpdate ==
    /\ run'.script = "generate" /\ run'.fault # "traversal"
    /\ ContentOf(tree) # {}
    /\ ~ArgsInclude(run'.args, sDryRun)

\* the manifest.json of the tree cannot be read or parsed in the step
ManifestUnusable ==
    /\ sManifestJson \in DOMAIN tree
    /\ (run'.fault = "manifest" \/ ~IsJsonText(tree[sManifestJson]))

\* C17: a run of generate-checksums.js in which a call of the traversal fails, or which
\* comes to update a manifest it cannot read or parse, ends with a non-zero exit code
\* and leaves the tree as it was; the tree changes only in runs whose scan succeeded.
C17_ErrorLeavesManifest ==
    [][(run'.script = "generate") =>
         /\ (run'.fault = "traversal") => (run'.exitCode # 0 /\ tree' = tree)
         /\ (ReachesUpdate /\ ManifestUnusable) => (run'.exitCode # 0 /\ tree' = tree)
         /\ (tree' # tree) => (run'.fault = "none" /\ run'.exitCode = 0)
      ]_<<gvars, rvars, vvars>>

\* a call of the traversal failed in a run over two content files and a manifest: the
\* run ended with exit code 1
C17_Witness ==
    /\ run.script = "generate" /\ run.fault = "traversal"
    /\ run.args = <<>>
    /\ run.exitCode = 1 /\ ~run.wrote
    /\ run.hadManifest
    /\ Cardinality(ContentOf(tree)) = MaxContent

\* the step is a run of bump-version.js
BumpRuns == run'.script = "bump"

\* the fields of the manifest bump-version.js writes
BumpFields == {"version", "released"}

\* C21: a run of bump-version.js that writes the manifest changes nothing but its
\* version and released fields: every other field of the manifest keeps its value, no
\* field disappears and no other file changes; a run without --update-manifest leaves
\* the tree as it is.
C21_BumpWritesVersionOnly ==
    [][BumpRuns =>
         /\ run'.wrote =>
              /\ HasManifest(tree) /\ HasManifest(tree')
              /\ \A k \in KeysOf(ManifestOf(tree)) \ BumpFields :
                    /\ HasKey(ManifestOf(tree'), k)
                    /\ GetKey(ManifestOf(tree'), k) = GetKey(ManifestOf(tree), k)
              /\ KeysOf(ManifestOf(tree')) = KeysOf(ManifestOf(tree)) \cup BumpFields
              /\ GetKey(ManifestOf(tree'), "version") = run'.version
              /\ GetKey(ManifestOf(tree'), "released") = toISOString(clock)
              /\ \A q \in ContentOf(tree) \cup ContentOf(tree') :
                    q \in DOMAIN tree /\ q \in DOMAIN tree' /\ tree'[q] = tree[q]
         /\ ~ArgsInclude(run'.args, sUpdateManifest) => tree' = tree
         /\ ~run'.wrote => tree' = tree
      ]_<<gvars, rvars, vvars>>

\* bump-version.js wrote the version it was given into a manifest the generator had
\* updated: the statistics, the checksums and the changelog are still there
C21_Witness ==
    /\ run.script = "bump" /\ run.wrote
    /\ run.args = <<sGivenVersion, sUpdateManifest>>
    /\ HasManifest(tree)
    /\ GetKey(ManifestOf(tree), "version") = sGivenVersion
    /\ HasKey(ManifestOf(tree), "statistics")
    /\ HasKey(ManifestOf(tree), "changelog")
    /\ Len(GetKey(ManifestOf(tree), "checksums")) > 0

\* whether the characters of s from position a to position b are digits, b >= a
AllDigits(s, a, b) == a <= b /\ b <= Len(s) /\ \A i \in a..b : IsDigit(s[i])

\* whether s has the form YYYY.MM.DD.PATCH: four digits, two, two and a numeral
IsDateVersion(s) ==
    /\ Len(s) >= 12
    /\ AllDigits(s, 1, 4) /\ s[5] = "."
    /\ AllDigits(s, 6, 7) /\ s[8] = "."
    /\ AllDigits(s, 9, 10) /\ s[11] = "."
    /\ AllDigits(s, 12, Len(s))

\* C22: whenever manifest.json exists (and is JSON), its version field is a string of
\* the form YYYY.MM.DD.PATCH.
C22_VersionIsDateVersion ==
    HasManifest(tree) =>
        /\ HasKey(ManifestOf(tree), "version")
        /\ IsDateVersion(GetKey(ManifestOf(tree), "version"))

(***************************************************************************)
(* Reruns of the scripts over unchanged content                            *)
(***************************************************************************)

\* a content tree with no manifest or with the manifest of the documentation; three
\* more instants, so three runs, remain
RerunInit ==
    /\ \E content \in UNION {[S -> FileBytes] :
                               S \in {T \in SUBSET ContentPaths : Cardinality(T) <= MaxContent}} :
         tree \in {content, content @@ (sManifestJson :> JSONstringify(DocManifest))}
    /\ scans = <<>>
    /\ run = NoRun /\ clock = MaxClock - 3 /\ today = 1 /\ releases = <<>>
    /\ tags = {TagOf(sDocVersion)}
    /\ ValidatorIdle

RerunNext == GenerateMain \/ BumpGiven

RerunSpec == RerunInit /\ [][RerunNext]_<<gvars, rvars, vvars>>

\* the step is a rerun of generate-checksums.js: it writes the manifest, an earlier run
\* wrote it too, and no content file changed in between
GenerateReruns == GenerateWrites /\ Len(run.prior) > 0 /\ HasManifest(tree)

\* a manifest with the time of its statistics set to that of another manifest
WithLastUpdatedOf(manifest, other) ==
    ObjectSet(manifest, "statistics",
              [GetKey(manifest, "statistics") EXCEPT
                  !.lastUpdated = GetKey(other, "statistics").lastUpdated])

\* whether two manifests are the same object: the same fields with the same values, the
\* entries of checksums taken as a mapping
SameManifest(m1, m2) ==
    /\ KeysOf(m1) = KeysOf(m2)
    /\ \A k \in KeysOf(m1) \ {"checksums"} : GetKey(m1, k) = GetKey(m2, k)
    /\ EntriesIn(GetKey(m1, "checksums")) = EntriesIn(GetKey(m2, "checksums"))

\* C23 as stated: a rerun over unchanged content writes the digests of the run before,
\* no field but released differs from the manifest of the run before, and when the
\* manifest was not touched since, the rerun writes the same manifest again.
C23_RerunIsIdentical ==
    [][GenerateReruns =>
         /\ EntriesIn(GetKey(ManifestOf(tree'), "checksums"))
               = EntriesIn(GetKey(run.prior, "checksums"))
         /\ \A k \in KeysOf(run.prior) \ {"checksums", "released"} :
               GetKey(ManifestOf(tree'), k) = GetKey(run.prior, k)
         /\ (ManifestOf(tree) = run.prior) => SameManifest(ManifestOf(tree'), run.prior)
      ]_<<gvars, rvars, vvars>>

\* the block files of the tree that share the block name b
Sharing(b) == {q \in BlockFiles(tree) : BlockId(q) = b}

\* whether a rerun wrote the manifest of the run before: the same fields with the same
\* values, the entries of checksums taken as a mapping, and the entries of blocks the
\* same but for a name that several block files share
SameRerun(m1, m2) ==
    /\ KeysOf(m1) = KeysOf(m2)
    /\ \A k \in KeysOf(m1) \ {"checksums", "blocks"} : GetKey(m1, k) = GetKey(m2, k)
    /\ EntriesIn(GetKey(m1, "checksums")) = EntriesIn(GetKey(m2, "checksums"))
    /\ KeysOf(GetKey(m1, "blocks")) = KeysOf(GetKey(m2, "blocks"))
    /\ \A b \in KeysOf(GetKey(m1, "blocks")) :
          \/ Cardinality(Sharing(b)) > 1
          \/ GetKey(GetKey(m1, "blocks"), b) = GetKey(GetKey(m2, "blocks"), b)

\* a manifest with the version and the release time of another manifest
WithReleaseOf(manifest, other) ==
    ObjectSet(ObjectSet(manifest, "version", GetKey(other, "version")),
              "released", GetKey(other, "released"))

\* C23: a rerun over unchanged content writes the digests of the run before; the time
\* statistics.lastUpdated is that of the rerun; version and released differ from the
\* manifest of the run before only when a version bump wrote them in between; the
\* blocks entry of a name that several block files share is that of one of them; every
\* other field is the same, and when the manifest was not touched since, the rerun
\* writes the same manifest again but for statistics.lastUpdated and such entries.
C23_RerunChangesLastUpdatedOnly ==
    [][GenerateReruns =>
         \A new \in {ManifestOf(tree')}, old \in {run.prior} :
            /\ EntriesIn(GetKey(new, "checksums")) = EntriesIn(GetKey(old, "checksums"))
            /\ GetKey(new, "statistics").lastUpdated = toISOString(clock)
            /\ GetKey(new, "statistics").lastUpdated # GetKey(old, "statistics").lastUpdated
            /\ \A m \in {WithLastUpdatedOf(WithReleaseOf(new, old), old)} : SameRerun(m, old)
            /\ \A k \in {"released", "version"} :
                  GetKey(new, k) = GetKey(ManifestOf(tree), k)
            /\ (\E k \in {"released", "version"} : GetKey(new, k) # GetKey(old, k)) =>
                  (run.script = "bump" /\ run.wrote)
            /\ (ManifestOf(tree) = old) =>
                  \A m \in {WithLastUpdatedOf(new, old)} : SameRerun(m, old)
            /\ \A b \in KeysOf(GetKey(new, "blocks")) :
                  Cardinality(Sharing(b)) > 1 =>
                     \E q \in Sharing(b) :
                        GetKey(GetKey(GetKey(new, "blocks"), b), "checksum")
                           = getFileChecksum(tree[q])
      ]_<<gvars, rvars, vvars>>

\* the generator ran, bump-version.js wrote a version, and the generator ran again: the
\* manifest differs from that of the first run in version and released
C23_Witness ==
    /\ GenerateWrote
    /\ Len(run.prior) > 0
    /\ GetKey(ManifestOf(tree), "version") = sGivenVersion
    /\ GetKey(ManifestOf(tree), "released") = toISOString(MaxClock - 2)
    /\ GetKey(ManifestOf(tree), "statistics").lastUpdated = toISOString(MaxClock - 1)
    /\ Cardinality(ContentOf(tree)) = MaxContent

\* C24: right after a run of generate-checksums.js that wrote the manifest, every key
\* of checksums is a content file of the tree and every key of blocks is the name of a
\* block file of the tree.
C24_NoStaleEntries ==
    GenerateWrote =>
        /\ \A k \in KeysOf(GetKey(ManifestOf(tree), "checksums")) : k \in ContentOf(tree)
        /\ \A b \in KeysOf(GetKey(ManifestOf(tree), "blocks")) :
              \E q \in BlockFiles(tree) : BlockId(q) = b

(***************************************************************************)
(* Claims about the validator started without an argument                  *)
(***************************************************************************)

\* the YAML block files of the content root, as paths from the repository root
EligibleFiles ==
    {BlocksPath(f) : f \in {g \in blockEntries : EndsWith(g, sDotYaml) \/ EndsWith(g, sDotYml)}}

\* C25: when the validator, started without an argument, has exited, every YAML block
\* file of the content root was read and has a result that is not a not-found error,
\* whatever the working directory; without such a file the exit code is 0.
C25_AllEligibleValidated ==
    (Len(args) = 0 /\ pc = "exited") =>
        /\ \A p \in EligibleFiles :
              /\ \E i \in 1..Len(reads) : reads[i] = p
              /\ \E i \in 1..Len(results) :
                    /\ results[i].filename = p
                    /\ \A e \in 1..Len(results[i].errors) :
                          results[i].errors[e].kind # "notfound"
        /\ EligibleFiles = {} => exitCode = 0

(***************************************************************************)
(* The day of a version and the day of its release time                    *)
(***************************************************************************)

\* the instants of the clock are hours; instant 0 is 22:00 UTC of the first day.  The
\* day toISOString renders an instant on (UTC), as an index into Days
UtcDayOf(instant) == 1 + ((instant + 22) \div 24)

\* the day getFullYear, getMonth and getDate give for an instant (local time), in a
\* time zone so many hours ahead of UTC
LocalDayOf(instant, offset) == 1 + ((instant + 22 + offset) \div 24)

\* the offsets of the time zones, in whole hours
Offsets == (-12)..14

\* a run of bump-version.js that generates the version, with or without
\* --update-manifest
BumpGenerated == BumpRun({<<>>, <<<<>>, sUpdateManifest>>})

\* the documented manifest and at most one content file, at some hour, in some time
\* zone: today is the day of the clock there
TodayInit ==
    /\ \E content \in UNION {[S -> FileBytes] :
                               S \in {T \in SUBSET ContentPaths : Cardinality(T) <= 1}} :
         tree = content @@ (sManifestJson :> JSONstringify(DocManifest))
    /\ scans = <<>>
    /\ run = NoRun /\ releases = <<>>
    /\ clock \in 0..(MaxClock - 1)
    /\ \E offset \in Offsets : today = LocalDayOf(clock, offset)
    /\ tags \in {{}, {TagOf(sDocVersion)}}
    /\ ValidatorIdle

TodayNext == BumpGenerated

TodaySpec == TodayInit /\ [][TodayNext]_<<gvars, rvars, vvars>>

\* the date YYYY.MM.DD of a day
DateText(date) ==
    FourDigits(date.year) \o <<".">> \o TwoDigits(date.month) \o <<".">> \o TwoDigits(date.day)

\* the last event was a run of bump-version.js that wrote a version it generated
WroteGenerated ==
    /\ run.script = "bump" /\ run.wrote
    /\ Len(run.args) > 0 /\ Len(run.args[1]) = 0

\* C26: right after a run of bump-version.js that wrote a generated version, the date
\* of the version in the manifest is the calendar date of its released timestamp.
C26_SameDay ==
    WroteGenerated =>
        SubSeq(GetKey(ManifestOf(tree), "version"), 1, 10)
           = DateText(Days[UtcDayOf(GetKey(ManifestOf(tree), "released").iso)])

(***************************************************************************)
(* Claims about what a scan returns                                        *)
(***************************************************************************)

\* the regular files of the tree whose base name is not manifest.json
EligibleOf(t) == {q \in DOMAIN t : LastName(q) # sManifestJson}

\* C27: a scan returns one checksums entry for every regular file of the tree whose
\* base name is not manifest.json, keyed by its relative path and valued sha256: and the
\* digest of its bytes, and no other entry; files lists the same files once each, with
\* their digests and sizes; fileCount is their number and totalSize the sum of their
\* sizes.
C27_ScanIsExact ==
    \A n \in 1..Len(scans) :
       /\ ChecksumsMap(scans[n])
             = {<<q, <<"sha256:", getFileChecksum(tree[q])>>>> : q \in EligibleOf(tree)}
       /\ Len(scans[n].checksums) = Cardinality(EligibleOf(tree))
       /\ {scans[n].files[i] : i \in 1..Len(scans[n].files)}
             = {[path |-> q, checksum |-> getFileChecksum(tree[q]), size |-> Len(tree[q])] :
                   q \in EligibleOf(tree)}
       /\ Len(scans[n].files) = Cardinality(EligibleOf(tree))
       /\ scans[n].fileCount = Cardinality(EligibleOf(tree))
       /\ scans[n].totalSize = SizeOf(EligibleOf(tree))

\* a tree with manifest.json at the root and in blocks/ and a block of two bytes in a
\* subdirectory was scanned: one file was recorded
C27_Witness ==
    /\ Len(scans) > 0
    /\ DOMAIN tree = {sManifestJson, pSubManifest, pBlockSubA}
    /\ tree[pBlockSubA] = <<1, 1>>
    /\ scans[1].fileCount = 1
    /\ scans[1].totalSize = 2

\* C28: right after a run of the generator that wrote the manifest, every block file
\* (every scanned file under blocks/) has the entry of its base name without .yaml in
\* blocks, and that entry holds the digest and the formatted size of that file, also when
\* two block files share a base name and when a block file ends in .yml.
C28_EveryBlockFileRecorded ==
    GenerateWrote =>
       \A q \in BlockFiles(tree) :
          /\ HasKey(BlocksIn(tree), BlockId(q))
          /\ HasKey(GetKey(BlocksIn(tree), BlockId(q)), "checksum")
          /\ GetKey(GetKey(BlocksIn(tree), BlockId(q)), "checksum") = getFileChecksum(tree[q])
          /\ HasKey(GetKey(BlocksIn(tree), BlockId(q)), "size")
          /\ GetKey(GetKey(BlocksIn(tree), BlockId(q)), "size") = formatSize(Len(tree[q]))

\* a manifest with its timestamps set aside: released and statistics.lastUpdated, the
\* entries of the object taken as a mapping
TimestampsAside(manifest) ==
    LET noReleased == IF HasKey(manifest, "released")
                      THEN ObjectSet(manifest, "released", toISOString(0)) ELSE manifest
        noUpdated == IF HasKey(noReleased, "statistics")
                     THEN ObjectSet(noReleased, "statistics",
                                    [GetKey(noReleased, "statistics") EXCEPT
                                        !.lastUpdated = toISOString(0)])
                     ELSE noReleased
    IN  EntriesIn(noUpdated)

\* the versions a caller gives to bump-version.js
GivenVersions == {sGivenVersion, sDocVersion}

\* C29: when manifest.json exists and there is content to scan, the update of
\* generate-checksums.js followed by the update of bump-version.js with a version V
\* writes the same manifest, timestamps aside, as the update of bump-version.js with V
\* followed by that of generate-checksums.js over the same scan.
C29_UpdatesCommute ==
    (HasManifest(tree) /\ ContentOf(tree) # {}) =>
       \A order \in ReaddirOrders(Directories), V \in GivenVersions :
          LET res == scanDirectory(<<>>, {sManifestJson}, order)
              text == tree[sManifestJson]
              generated == JSONstringify(updateManifest(res, TRUE, text, clock))
              bumped == JSONstringify(updateManifestVersion(V, text, clock))
              generateThenBump == updateManifestVersion(V, generated, clock + 1)
              bumpThenGenerate == updateManifest(res, TRUE, bumped, clock + 1)
          IN  /\ TimestampsAside(generateThenBump) = TimestampsAside(bumpThenGenerate)
              /\ GetKey(generateThenBump, "version") = V
              /\ EntriesIn(GetKey(generateThenBump, "checksums")) = ChecksumsOf(tree)

\* the generator updated an existing manifest and bump-version.js then wrote a version
\* into it: the manifest holds the version, the digests of the content and the changelog
\* it had
C29_Witness ==
    /\ run.script = "bump" /\ run.wrote
    /\ Len(run.prior) > 0
    /\ HasKey(run.prior, "changelog")
    /\ GetKey(run.prior, "version") = sDocVersion
    /\ GetKey(ManifestOf(tree), "version") = sGivenVersion
    /\ EntriesIn(GetKey(ManifestOf(tree), "checksums")) = ChecksumsOf(tree)
    /\ Cardinality(BlockFiles(tree)) > 0
    /\ TimestampsAside(ManifestOf(tree))
          = TimestampsAside(updateManifestVersion(sGivenVersion, JSONstringify(run.prior), clock))

\* the flags of bump-version.js
BumpFlags == {sDryRun, sUpdateManifest}

\* the caller of bump-version.js gave no version: every argument is a flag, or an empty
\* string in the place of the version
NoVersionGiven(arguments) ==
    \A i \in 1..Len(arguments) : arguments[i] \in BumpFlags \/ Len(arguments[i]) = 0

\* C30: when the caller gives no version, the version bump-version.js prints, and with
\* --update-manifest writes to the manifest, is the one generateVersion() computes,
\* whichever flags are passed and wherever they stand: a flag is never the version.
C30_FlagIsNeverTheVersion ==
    [][(BumpRuns /\ NoVersionGiven(run'.args)) =>
         /\ run'.version = generateVersion(tags, run'.gitWorked, Days[today])
         /\ run'.version \notin BumpFlags
         /\ run'.wrote => GetKey(ManifestOf(tree'), "version")
                             = generateVersion(tags, run'.gitWorked, Days[today])
      ]_<<gvars, rvars, vvars>>

====
